---- MODULE Spec2Model ----
(***************************************************************************)
(* Model of the UX research pipeline orchestrator (UXOrchestratorAgent):   *)
(* one durable session object per requestId, its start entry point, the    *)
(* asynchronous runWorkflow coroutine with its three awaited stage calls,  *)
(* and the WebSocket fan-out.  JavaScript runs each handler to its next    *)
(* await without interruption, so every action below is one such           *)
(* synchronous block; the blocks of different workflows interleave.        *)
(* Progress values are kept in hundredths (0.05 is 5, 1.0 is 100).         *)
(***************************************************************************)
EXTENDS Integers, Sequences, FiniteSets, TLC

\* ---------------------------------------------------------------- bounds
\* number of start calls made on the session object
MaxStarts == 2
\* number of start calls made while observers come and go
MaxStreamStarts == 1

\* the requestId this session object is named after (idFromName(requestId))
RequestId == "r1"
\* repository URLs a start payload may carry
RepoUrls == {"repoA", "repoB"}
\* messages a stage call may throw
Errors == {"boom"}
\* WebSocket connections, in the order getWebSockets() lists them
Observers == <<"o1", "o2">>
ObserverSet == {Observers[i] : i \in 1..Len(Observers)}
Runs == 1..MaxStarts

\* an absent optional field (undefined)
None == [none |-> TRUE]

\* ---------------------------------------------------------------- schema
AgentPhaseSchema ==
  <<"idle", "analyzing_repo", "scanning_schemas", "browsing_registries",
    "capturing_screenshots", "synthesizing", "generating_report",
    "complete", "error">>

UXResearchRequest == [repoUrl : RepoUrls]

VARIABLES
  state,     \* this.state of the orchestrator: None before the first start
  sock,      \* per connection: "new", "open", or "broken" (its send throws)
  inbox,     \* per connection: the messages its send() accepted, in order
  joinedAt,  \* per connection: how many events had been emitted when it attached
  emitted,   \* every broadcast(type, payload) call, in order, each with what
             \* the session held when it was made
  calls,     \* every stage call issued, in order, with the session it saw
  wf,        \* per run: position and locals of its runWorkflow coroutine
  starts,    \* number of start calls so far
  architect, \* this.state of the architect object: None before its first call
  request,   \* the request or input last handed to the component under study
  response   \* the answer to it

\* what only the router, the architect and the stage functions touch
service == <<architect, request, response>>

vars == <<state, sock, inbox, joinedAt, emitted, calls, wf, starts,
          architect, request, response>>

\* The part of the object a synchronous block reads and writes.
Ctx == [state |-> state, inbox |-> inbox, emitted |-> emitted, calls |-> calls]

\* ------------------------------------------------------------ orchestrator
initializeState(requestId, repoUrl, userIntent) ==
  [requestId |-> requestId,
   repoUrl |-> repoUrl,
   userIntent |-> userIntent,
   phase |-> "idle",
   progress |-> 0,
   history |-> <<>>,
   logs |-> <<>>,
   semanticMap |-> None,
   visualResearch |-> None,
   finalReport |-> None]

setState(c, s) == [c EXCEPT !.state = s]

\* the message a socket receives for broadcast(type, payload)
Message(type, payload) == [type |-> type, payload |-> payload]

\* the record of one broadcast call: the message, and what the session held
\* at the moment of the call (the number of log entries, the stored report)
Emission(c, type, payload) ==
  [type |-> type, payload |-> payload,
   logged |-> Len(c.state.logs), report |-> c.state.finalReport]

\* a broadcast whose try/catch encloses the whole loop: the first throwing
\* send ends the loop, and the sockets listed after it get nothing
broadcastAbortsOnFailure(c, type, payload) ==
  [c EXCEPT !.emitted = Append(@, Emission(c, type, payload)),
            !.inbox = [o \in ObserverSet |->
                         IF /\ sock[o] = "open"
                            /\ \A i, j \in 1..Len(Observers) :
                                 (Observers[i] = o /\ j < i) => sock[Observers[j]] # "broken"
                         THEN Append(@[o], Message(type, payload)) ELSE @[o]]]

\* ws.send inside try/catch, for each socket of getWebSockets() in turn
broadcast(c, type, payload) ==
  [c EXCEPT !.emitted = Append(@, Emission(c, type, payload)),
            !.inbox = [o \in ObserverSet |->
                         IF sock[o] = "open"
                         THEN Append(@[o], Message(type, payload)) ELSE @[o]]]

\* a log helper that broadcasts the entry before it appends it
logBroadcastsFirst(c, level, message, data) ==
  LET entry == [level |-> level, message |-> message, data |-> data]
      c1 == broadcast(c, "log", entry)
  IN setState(c1, [c1.state EXCEPT !.logs = Append(@, entry)])

log(c, level, message, data) ==
  LET entry == [level |-> level, message |-> message, data |-> data]
      c1 == setState(c, [c.state EXCEPT !.logs = Append(@, entry)])
  IN broadcast(c1, "log", entry)

\* a phase update written from a state without the stored results
setPhaseDropsResults(c, phase, progress) ==
  LET c1 == setState(c, [c.state EXCEPT !.phase = phase, !.progress = progress,
                                        !.semanticMap = None,
                                        !.visualResearch = None])
  IN broadcast(c1, "phase", [phase |-> phase, progress |-> progress])

setPhase(c, phase, progress) ==
  LET c1 == setState(c, [c.state EXCEPT !.phase = phase, !.progress = progress])
  IN broadcast(c1, "phase", [phase |-> phase, progress |-> progress])

\* stub.<stage>(...) is issued: the call is recorded with what the session shows
invoke(c, run, stage) ==
  [c EXCEPT !.calls = Append(@, [stage |-> stage, run |-> run,
                                 phase |-> c.state.phase,
                                 progress |-> c.state.progress,
                                 sent |-> Len(c.emitted)])]

\* what the stage objects answer
analyze(requestId, repoUrl) == [tables |-> <<>>, repo |-> repoUrl]

scout(requestId, semanticMap, targetRegistries) ==
  [moodBoard |-> <<>>, componentRecommendations |-> <<semanticMap.repo>>]

synthesize(requestId, semanticMap, visualResearch, payload) ==
  [id |-> requestId,
   repoUrl |-> payload.repoUrl,
   semanticMap |-> semanticMap,
   recommendedStack |-> visualResearch.componentRecommendations]

runRepoAnalyst(c, run) ==
  invoke(log(c, "info", "Delegating to RepoAnalyst", None), run, "analyze")

runStyleScout(c, run) ==
  invoke(log(c, "info", "Delegating to StyleScout", None), run, "scout")

runArchitect(c, run) ==
  invoke(log(c, "info", "Delegating to Architect", None), run, "synthesize")

\* runWorkflow up to its first await
workflowPhase1(c, run) ==
  LET c1 == setPhase(c, "analyzing_repo", 5)
      c2 == log(c1, "info", "Phase 1", None)
  IN runRepoAnalyst(c2, run)

\* scout is called before the phase update of its stage
workflowPhase2CallsFirst(c, run, semanticMap) ==
  LET c1 == setState(c, [c.state EXCEPT !.semanticMap = semanticMap])
      c2 == log(c1, "info", "Found tables", Len(semanticMap.tables))
      c3 == runStyleScout(c2, run)
      c4 == setPhase(c3, "browsing_registries", 35)
  IN log(c4, "info", "Phase 2", None)

\* runWorkflow from the return of analyze to the await of scout
workflowPhase2(c, run, semanticMap) ==
  LET c1 == setState(c, [c.state EXCEPT !.semanticMap = semanticMap])
      c2 == log(c1, "info", "Found tables", Len(semanticMap.tables))
      c3 == setPhase(c2, "browsing_registries", 35)
      c4 == log(c3, "info", "Phase 2", None)
  IN runStyleScout(c4, run)

\* runWorkflow from the return of scout to the await of synthesize
workflowPhase3(c, run, visualResearch) ==
  LET c1 == setState(c, [c.state EXCEPT !.visualResearch = visualResearch])
      c2 == log(c1, "info", "Captured screenshots", Len(visualResearch.moodBoard))
      c3 == setPhase(c2, "synthesizing", 70)
      c4 == log(c3, "info", "Phase 3", None)
  IN runArchitect(c4, run)

\* the phase becomes complete before the report is stored
workflowCompleteStoresLate(c, finalReport) ==
  LET c1 == log(c, "info", "Generated final report", None)
      c2 == setPhase(c1, "complete", 100)
      c3 == setState(c2, [c2.state EXCEPT !.finalReport = finalReport])
      c4 == log(c3, "info", "Workflow complete", None)
  IN broadcast(c4, "report", finalReport)

\* runWorkflow from the return of synthesize to its end
workflowComplete(c, finalReport) ==
  LET c1 == setState(c, [c.state EXCEPT !.finalReport = finalReport])
      c2 == log(c1, "info", "Generated final report", None)
      c3 == setPhase(c2, "complete", 100)
      c4 == log(c3, "info", "Workflow complete", None)
  IN broadcast(c4, "report", finalReport)

\* a catch block that reports the failure with the progress reset
workflowCatchKeepsPhase(c, errorMessage) ==
  log(c, "error", "Workflow failed", errorMessage)

workflowCatchResetsProgress(c, errorMessage) ==
  LET c1 == setPhase(c, "error", 0)
  IN log(c1, "error", "Workflow failed", errorMessage)

\* the catch block of runWorkflow
workflowCatch(c, errorMessage) ==
  LET c1 == setPhase(c, "error", c.state.progress)
  IN log(c1, "error", "Workflow failed", errorMessage)

\* fetch("/status")
status ==
  [phase |-> IF state = None THEN "idle" ELSE state.phase,
   progress |-> IF state = None THEN 0 ELSE state.progress,
   logs |-> IF state = None THEN <<>> ELSE state.logs]

Install(c) ==
  /\ state' = c.state
  /\ inbox' = c.inbox
  /\ emitted' = c.emitted
  /\ calls' = c.calls

\* ----------------------------------------------------------------- actions
SessionInit ==
  /\ state = None
  /\ sock = [o \in ObserverSet |-> "new"]
  /\ inbox = [o \in ObserverSet |-> <<>>]
  /\ joinedAt = [o \in ObserverSet |-> 0]
  /\ emitted = <<>>
  /\ calls = <<>>
  /\ wf = [r \in Runs |-> [pc |-> "unstarted", payload |-> None,
                           semanticMap |-> None, visualResearch |-> None,
                           error |-> None]]
  /\ starts = 0
  /\ architect = None

Init ==
  /\ SessionInit
  /\ request = None
  /\ response = None

start(payload) ==
    /\ LET run == starts + 1
           c0 == setState(Ctx, initializeState(RequestId, payload.repoUrl, None))
           c1 == log(c0, "info", "Starting UX Research workflow", payload.repoUrl)
           c2 == setPhase(c1, "idle", 0)
       IN /\ Install(workflowPhase1(c2, run))
          /\ wf' = [wf EXCEPT ![run] = [@ EXCEPT !.pc = "analyze", !.payload = payload]]
          /\ starts' = run
    /\ UNCHANGED <<sock, joinedAt>>

Start ==
  \E payload \in UXResearchRequest :
    /\ starts < MaxStarts
    /\ start(payload)
    /\ UNCHANGED service

StreamStart ==
  \E payload \in UXResearchRequest :
    /\ starts < MaxStreamStarts
    /\ start(payload)
    /\ UNCHANGED service

AnalyzeReturns ==
  \E run \in Runs :
    /\ wf[run].pc = "analyze"
    /\ LET semanticMap == analyze(RequestId, wf[run].payload.repoUrl)
       IN /\ Install(workflowPhase2(Ctx, run, semanticMap))
          /\ wf' = [wf EXCEPT ![run] = [@ EXCEPT !.pc = "scout",
                                                 !.semanticMap = semanticMap]]
    /\ UNCHANGED <<sock, joinedAt, starts>>
    /\ UNCHANGED service

ScoutReturns ==
  \E run \in Runs :
    /\ wf[run].pc = "scout"
    /\ LET visualResearch == scout(RequestId, wf[run].semanticMap, None)
       IN /\ Install(workflowPhase3(Ctx, run, visualResearch))
          /\ wf' = [wf EXCEPT ![run] = [@ EXCEPT !.pc = "synthesize",
                                                 !.visualResearch = visualResearch]]
    /\ UNCHANGED <<sock, joinedAt, starts>>
    /\ UNCHANGED service

SynthesizeReturns ==
  \E run \in Runs :
    /\ wf[run].pc = "synthesize"
    /\ LET finalReport == synthesize(RequestId, wf[run].semanticMap,
                                     wf[run].visualResearch, wf[run].payload)
       IN /\ Install(workflowComplete(Ctx, finalReport))
          /\ wf' = [wf EXCEPT ![run] = [@ EXCEPT !.pc = "done"]]
    /\ UNCHANGED <<sock, joinedAt, starts>>
    /\ UNCHANGED service

StageThrows ==
  \E run \in Runs, errorMessage \in Errors :
    /\ wf[run].pc \in {"analyze", "scout", "synthesize"}
    /\ Install(workflowCatch(Ctx, errorMessage))
    /\ wf' = [wf EXCEPT ![run] = [@ EXCEPT !.pc = "failed", !.error = errorMessage]]
    /\ UNCHANGED <<sock, joinedAt, starts>>
    /\ UNCHANGED service

\* fetch("/ws"): acceptWebSocket(server), then the greeting; connections are
\* listed in the order they were accepted
Connect ==
  \E i \in 1..Len(Observers) : LET o == Observers[i] IN
    /\ sock[o] = "new"
    /\ \A j \in 1..(i-1) : sock[Observers[j]] # "new"
    /\ sock' = [sock EXCEPT ![o] = "open"]
    /\ inbox' = [inbox EXCEPT ![o] = Append(@, Message("connected", None))]
    /\ joinedAt' = [joinedAt EXCEPT ![o] = Len(emitted)]
    /\ UNCHANGED <<state, emitted, calls, wf, starts>>
    /\ UNCHANGED service

\* the peer goes away: from now on send() to it throws (or the runtime no
\* longer lists it, which delivers the same)
Break ==
  \E o \in ObserverSet :
    /\ sock[o] = "open"
    /\ sock' = [sock EXCEPT ![o] = "broken"]
    /\ UNCHANGED <<state, inbox, joinedAt, emitted, calls, wf, starts>>
    /\ UNCHANGED service

Next ==
  \/ Start
  \/ AnalyzeReturns
  \/ ScoutReturns
  \/ SynthesizeReturns
  \/ StageThrows

Spec == Init /\ [][Next]_vars

\* one session streamed to observers that attach and fail at any moment
StreamNext ==
  \/ StreamStart
  \/ AnalyzeReturns
  \/ ScoutReturns
  \/ SynthesizeReturns
  \/ StageThrows
  \/ Connect
  \/ Break

StreamSpec == Init /\ [][StreamNext]_vars

\* ------------------------------------------------------------- properties
Stages == <<"analyze", "scout", "synthesize">>

\* the phase update that runWorkflow is to make on entry to a stage
StageEntry(stage) ==
  CASE stage = "analyze" -> [phase |-> "analyzing_repo", progress |-> 5]
    [] stage = "scout" -> [phase |-> "browsing_registries", progress |-> 35]
    [] stage = "synthesize" -> [phase |-> "synthesizing", progress |-> 70]

CallsOf(run) == LET ByRun(k) == k.run = run IN SelectSeq(calls, ByRun)

\* the payload of the last phase event among the first n broadcasts
LastPhaseEvent(n) ==
  LET at == {i \in 1..n : emitted[i].type = "phase"}
  IN IF at = {} THEN None
     ELSE emitted[CHOOSE i \in at : \A j \in at : j <= i].payload

\* C1: within a run the stages are called in the order analyze, scout,
\* synthesize, each at most once and each only after the stage before it has
\* returned; when a stage is called the session already shows that stage's
\* phase and progress, and the phase event for it is the last one broadcast.
C1_StagesInOrder ==
  /\ \A i \in 1..Len(calls) :
       /\ [phase |-> calls[i].phase, progress |-> calls[i].progress]
            = StageEntry(calls[i].stage)
       /\ LastPhaseEvent(calls[i].sent) = StageEntry(calls[i].stage)
  /\ \A run \in Runs :
       /\ Len(CallsOf(run)) <= Len(Stages)
       /\ \A j \in 1..Len(CallsOf(run)) : CallsOf(run)[j].stage = Stages[j]
       /\ Len(CallsOf(run)) >= 2 => wf[run].semanticMap # None
       /\ Len(CallsOf(run)) >= 3 => wf[run].visualResearch # None

\* a run has called all three stages
C1_Witness == \E run \in Runs : Len(CallsOf(run)) = 3

\* the broadcasts made by the step
Added == SubSeq(emitted', Len(emitted) + 1, Len(emitted'))

ReportEvents(events) ==
  LET IsReport(e) == e.type = "report" IN SelectSeq(events, IsReport)

LogEvents(events) ==
  LET IsLog(e) == e.type = "log" IN SelectSeq(events, IsLog)

\* the step in which synthesize returns to the run
RunCompletes(run) == wf[run].pc = "synthesize" /\ wf'[run].pc = "done"

\* the step in which a stage call of the run throws
RunFails(run) ==
  wf[run].pc \in {"analyze", "scout", "synthesize"} /\ wf'[run].pc = "failed"

C2_CompleteStep ==
  /\ \A run \in Runs : RunCompletes(run) =>
       LET report == synthesize(RequestId, wf[run].semanticMap,
                                wf[run].visualResearch, wf[run].payload)
       IN /\ state'.phase = "complete"
          /\ state'.progress = 100
          /\ state'.finalReport = report
          /\ Len(ReportEvents(Added)) = 1
          /\ Added[Len(Added)].type = "report"
          /\ Added[Len(Added)].payload = report
          /\ \E i \in 1..(Len(Added) - 1) :
               /\ Added[i].type = "phase"
               /\ Added[i].payload = [phase |-> "complete", progress |-> 100]
  /\ (\A run \in Runs : ~RunCompletes(run)) => Len(ReportEvents(Added)) = 0

C2_CompleteHasReport ==
  /\ (state # None /\ state.phase = "complete") =>
       (state.finalReport # None /\ state.finalReport.id = state.requestId)
  /\ \A i \in 1..Len(emitted) :
       (emitted[i].type = "phase" /\ emitted[i].payload.phase = "complete") =>
         (emitted[i].report # None /\ emitted[i].report.id = RequestId)

\* C2: when synthesize returns, the run ends in phase complete with progress
\* 1.0; the returned Report is stored in the session before the phase becomes
\* complete (a complete session holds a report whose id is its requestId);
\* exactly one report event, carrying that Report, is broadcast, after the
\* phase event for complete, and no other step broadcasts a report event.
C2_SuccessEndsComplete == []C2_CompleteHasReport /\ [][C2_CompleteStep]_vars

\* a run has completed and the session shows it
C2_Witness ==
  /\ \E run \in Runs : wf[run].pc = "done"
  /\ state.phase = "complete"
  /\ Len(ReportEvents(emitted)) = 1

C3_FailStep ==
  \A run \in Runs :
    /\ RunFails(run) =>
         /\ state'.phase = "error"
         /\ state'.progress = state.progress
         /\ state'.logs = Append(state.logs,
               [level |-> "error", message |-> "Workflow failed",
                data |-> wf'[run].error])
         /\ Len(Added) = 2
         /\ Added[1].type = "phase"
         /\ Added[1].payload = [phase |-> "error", progress |-> state.progress]
         /\ Added[2].type = "log"
         /\ Added[2].payload = state'.logs[Len(state'.logs)]
         /\ calls' = calls
         /\ state'.finalReport = state.finalReport
    /\ wf[run].pc = "failed" => (wf'[run] = wf[run] /\ CallsOf(run)' = CallsOf(run))

\* C3: when a stage call throws, the run ends in phase error with the progress
\* the session had; one error-level log entry carrying the thrown message is
\* appended and broadcast last; the failing step calls no stage, stores no
\* report and broadcasts no report event, and the failed run never calls a
\* stage again.
C3_FailureEndsInError == [][C3_FailStep]_vars

\* a run has failed in its second stage, the session showing error at 0.35
C3_Witness ==
  /\ \E run \in Runs : wf[run].pc = "failed" /\ Len(CallsOf(run)) = 2
  /\ state.phase = "error"
  /\ state.progress = 35

Terminal == {"complete", "error"}

InFlight(run) == wf[run].pc \in {"analyze", "scout", "synthesize"}

Finished(run) == wf[run].pc \in {"done", "failed"}

\* C4: once the session's phase is complete or error, no workflow step changes
\* its phase or progress; only a start call may.
C4_TerminalIsFinal ==
  [][(state # None /\ state.phase \in Terminal /\ starts' = starts) =>
       (state'.phase = state.phase /\ state'.progress = state.progress)]_vars

\* C5: between two start calls, while the session is not terminal, the stored
\* progress never decreases and no phase event carries a smaller progress.
C5_ProgressNeverDecreases ==
  [][(state # None /\ state.phase \notin Terminal /\ starts' = starts) =>
       /\ state'.progress >= state.progress
       /\ \A i \in 1..Len(Added) :
            Added[i].type = "phase" => Added[i].payload.progress >= state.progress]_vars

WorkingPhases == {AgentPhaseSchema[i] : i \in 2..7}

\* C6: a run that completed has taken the session through each of the six
\* working phases of the phase enum.
C6_AllWorkingPhasesVisited ==
  (\E run \in Runs : wf[run].pc = "done") =>
    \A p \in WorkingPhases :
      \E i \in 1..Len(emitted) :
        emitted[i].type = "phase" /\ emitted[i].payload.phase = p

\* the broadcast that opens the current session: the first log of the last start
SessionFrom ==
  LET at == {i \in 1..Len(emitted) :
               /\ emitted[i].type = "log"
               /\ emitted[i].payload.message = "Starting UX Research workflow"}
  IN CHOOSE i \in at : \A j \in at : j <= i

\* C7: every log entry is in the session's log sequence when it is broadcast,
\* so a status request returns exactly the entries broadcast for the session
\* so far, in broadcast order.
C7_LogsStoredBeforeBroadcast ==
  state # None =>
    LET sent == LogEvents(SubSeq(emitted, SessionFrom, Len(emitted)))
    IN /\ Len(status.logs) = Len(sent)
       /\ \A k \in 1..Len(sent) :
            /\ status.logs[k] = sent[k].payload
            /\ sent[k].logged >= k

\* a second start has reset the logs and the new session has logged since
C7_Witness == starts = 2 /\ Len(status.logs) > 3 /\ SessionFrom > 1

\* what a connection that never failed has been sent since it attached
Expected(o) ==
  <<Message("connected", None)>> \o
    [k \in 1..(Len(emitted) - joinedAt[o]) |->
       Message(emitted[joinedAt[o] + k].type, emitted[joinedAt[o] + k].payload)]

IsPrefix(s, t) == Len(s) <= Len(t) /\ SubSeq(t, 1, Len(s)) = s

\* C8: a connection whose sends succeed has received every event broadcast
\* since it attached, once each and in broadcast order, whatever happened to
\* the other connections; a connection whose sends fail holds a prefix of it.
C8_OrderedBestEffortDelivery ==
  \A o \in ObserverSet :
    /\ sock[o] = "new" => inbox[o] = <<>>
    /\ sock[o] = "open" => inbox[o] = Expected(o)
    /\ sock[o] = "broken" => IsPrefix(inbox[o], Expected(o))

\* the first connection failed in mid-run and the second one, attached later,
\* has received the report
C8_Witness ==
  /\ sock["o1"] = "broken"
  /\ sock["o2"] = "open"
  /\ Len(inbox["o1"]) > 1
  /\ Len(inbox["o1"]) < Len(Expected("o1"))
  /\ joinedAt["o2"] > 0
  /\ inbox["o2"][Len(inbox["o2"])].type = "report"

\* C9: at most one stage call is in flight for the requestId.
C9_OneStageInFlight == Cardinality({run \in Runs : InFlight(run)}) <= 1

\* C10: once every workflow has finished after a second start, the results
\* stored in the session are those produced for the last start's payload.
C10_LastCallerWins ==
  (starts >= 2 /\ \A run \in 1..starts : Finished(run)) =>
    /\ state.repoUrl = wf[starts].payload.repoUrl
    /\ state.semanticMap # None =>
         state.semanticMap = analyze(RequestId, wf[starts].payload.repoUrl)
    /\ state.visualResearch # None =>
         state.visualResearch =
           scout(RequestId, analyze(RequestId, wf[starts].payload.repoUrl), None)
    /\ state.finalReport # None =>
         state.finalReport.repoUrl = wf[starts].payload.repoUrl

\* ------------------------------------------------ the router and its inputs
\* A repoUrl string is modelled by its pieces between "/" characters:
\* "https://github.com/o/r" is <<"https:", "", "github.com", "o", "r">>.
RouterRepoUrls ==
  { <<"https:", "", "github.com", "o", "r">>,
    <<"http:", "", "github.com", "o", "r.git">>,
    <<"https:", "", "github.com", "o">>,
    <<"https:", "", "example.com", "o", "r">>,
    <<"github.com", "o", "r">>,
    <<"not a url">> }

\* start inputs as they arrive at the procedure: repoUrl may be missing
StartInputs == [repoUrl : RouterRepoUrls] \cup {[userIntent |-> "intent"]}

\* z.string().url(): the string parses as an absolute URL with an authority
isUrl(url) ==
  /\ Len(url) >= 3
  /\ url[1] \in {"https:", "http:"}
  /\ url[2] = ""
  /\ url[3] # ""

\* url.match(/github\.com\/([^\/]+)\/([^\/]+)/), unanchored
matchGitHub(url) ==
  { i \in 1..Len(url) : /\ i + 2 <= Len(url)
                        /\ url[i] = "github.com"
                        /\ url[i+1] # ""
                        /\ url[i+2] # "" }

parseGitHubUrl(url) ==
  IF matchGitHub(url) = {}
  THEN [throws |-> "Invalid GitHub URL"]
  ELSE LET i == CHOOSE k \in matchGitHub(url) : \A j \in matchGitHub(url) : k <= j
       IN [owner |-> url[i+1], repo |-> url[i+2]]

\* .input(UXResearchRequestSchema): TRUE iff the input parses
UXResearchRequestSchema(input) ==
  /\ "repoUrl" \in DOMAIN input
  /\ isUrl(input.repoUrl)

\* uxResearchRouter.start: the session object is the one of the fresh id
RouterStart ==
  \E input \in StartInputs :
    /\ starts = 0
    /\ request' = [procedure |-> "start", input |-> input]
    /\ IF UXResearchRequestSchema(input)
       THEN /\ start(input)
            /\ response' = [requestId |-> RequestId, status |-> "started"]
       ELSE /\ response' = [error |-> "BAD_REQUEST"]
            /\ UNCHANGED <<state, sock, inbox, joinedAt, emitted, calls, wf, starts>>
    /\ UNCHANGED architect

\* RepoAnalystAgent.analyze answers the call: it throws on a URL that
\* parseGitHubUrl rejects and returns a semantic map otherwise
AnalyzeSettles ==
  \E run \in Runs :
    /\ wf[run].pc = "analyze"
    /\ LET repoUrl == wf[run].payload.repoUrl
           parsed == parseGitHubUrl(repoUrl)
           semanticMap == analyze(RequestId, repoUrl)
       IN IF "throws" \in DOMAIN parsed
          THEN /\ Install(workflowCatch(Ctx, parsed.throws))
               /\ wf' = [wf EXCEPT ![run] = [@ EXCEPT !.pc = "failed",
                                                      !.error = parsed.throws]]
          ELSE /\ Install(workflowPhase2(Ctx, run, semanticMap))
               /\ wf' = [wf EXCEPT ![run] = [@ EXCEPT !.pc = "scout",
                                                      !.semanticMap = semanticMap]]
    /\ UNCHANGED <<sock, joinedAt, starts>>
    /\ UNCHANGED service

\* ArchitectAgent.synthesize, first statement: setState({requestId, report: null})
ArchitectResets ==
  \E run \in Runs :
    /\ wf[run].pc = "synthesize"
    /\ architect' = [requestId |-> RequestId, report |-> None]
    /\ wf' = [wf EXCEPT ![run] = [@ EXCEPT !.pc = "synthesizing"]]
    /\ UNCHANGED <<state, sock, inbox, joinedAt, emitted, calls, starts, request, response>>

\* ArchitectAgent.synthesize, last statements: the report is stored
ArchitectStores ==
  \E run \in Runs :
    /\ wf[run].pc = "synthesizing"
    /\ architect' = [architect EXCEPT !.report =
                       synthesize(RequestId, wf[run].semanticMap,
                                  wf[run].visualResearch, wf[run].payload)]
    /\ wf' = [wf EXCEPT ![run] = [@ EXCEPT !.pc = "stored"]]
    /\ UNCHANGED <<state, sock, inbox, joinedAt, emitted, calls, starts, request, response>>

\* the orchestrator receives what synthesize returned
ArchitectReturns ==
  \E run \in Runs :
    /\ wf[run].pc = "stored"
    /\ Install(workflowComplete(Ctx, architect.report))
    /\ wf' = [wf EXCEPT ![run] = [@ EXCEPT !.pc = "done"]]
    /\ UNCHANGED <<sock, joinedAt, starts>>
    /\ UNCHANGED service

\* the ids a report request can name: this session's and one never started
ReportRequestIds == {RequestId, "r0"}

\* the architect object addressed by idFromName(requestId)
ArchitectOf(requestId) == IF requestId = RequestId THEN architect ELSE None

\* ArchitectAgent.fetch
Architect_fetch(this, pathname) ==
  IF pathname = "/report" /\ this # None /\ this.report # None
  THEN [ok |-> TRUE, status |-> 200, body |-> [json |-> this.report]]
  ELSE [ok |-> TRUE, status |-> 200, body |-> [text |-> "Architect Agent Ready"]]

\* Response.json(): parses the body; a body that is not JSON text rejects,
\* which the procedure surfaces as an error
Response_json(r) ==
  IF "json" \in DOMAIN r.body THEN r.body.json
  ELSE [error |-> "INTERNAL_SERVER_ERROR"]

\* uxResearchRouter.report
report(input) ==
  LET fetched == Architect_fetch(ArchitectOf(input.requestId), "/report")
  IN IF ~fetched.ok THEN None ELSE Response_json(fetched)

RouterReport ==
  \E requestId \in ReportRequestIds :
    /\ request' = [procedure |-> "report", input |-> [requestId |-> requestId]]
    /\ response' = report([requestId |-> requestId])
    /\ UNCHANGED <<state, sock, inbox, joinedAt, emitted, calls, wf, starts, architect>>

\* uxResearchRouter.status: the orchestrator object of an id never started
\* has no state
RouterStatus ==
  \E requestId \in ReportRequestIds :
    /\ request' = [procedure |-> "status", input |-> [requestId |-> requestId]]
    /\ response' = IF requestId = RequestId THEN status
                   ELSE [phase |-> "idle", progress |-> 0, logs |-> <<>>]
    /\ UNCHANGED <<state, sock, inbox, joinedAt, emitted, calls, wf, starts, architect>>

RouterNext ==
  \/ RouterStart
  \/ RouterStatus
  \/ AnalyzeSettles
  \/ ScoutReturns
  \/ StageThrows
  \/ ArchitectResets
  \/ ArchitectStores
  \/ ArchitectReturns
  \/ RouterReport

RouterSpec == Init /\ [][RouterNext]_vars

\* the inputs the specification calls input errors: repoUrl missing, not a
\* well-formed URL, or well formed but not of the repository host's pattern
InputError(input) ==
  \/ "repoUrl" \notin DOMAIN input
  \/ ~isUrl(input.repoUrl)
  \/ matchGitHub(input.repoUrl) = {}

\* C11: a start whose repoUrl is missing, malformed or not a repository-host
\* URL is answered with an error and touches nothing: the session stays
\* unborn, no stage is called, no phase or log event is produced
C11_InputErrorNeverStarts ==
  (request # None /\ request.procedure = "start" /\ InputError(request.input)) =>
    /\ "error" \in DOMAIN response
    /\ state = None
    /\ calls = <<>>
    /\ emitted = <<>>

\* C12: a report request is answered with the full report when the architect
\* holds one and with null otherwise, never with an error or another body
C12_ReportOrNull ==
  (request # None /\ request.procedure = "report") =>
    IF ArchitectOf(request.input.requestId) # None
       /\ ArchitectOf(request.input.requestId).report # None
    THEN response = ArchitectOf(request.input.requestId).report
    ELSE response = None

\* --------------------------------------------- client messages on a socket
MaxMessages == 2

\* the texts a client sends
ClientTexts == {"{type:ping}", "{type:status}", "{type:hello}", "null", "not json"}

\* JSON.parse(text): the parsed value, or a throw on text that is not JSON
JSON_parse(text) ==
  CASE text = "{type:ping}" -> [value |-> [type |-> "ping"]]
    [] text = "{type:status}" -> [value |-> [type |-> "status"]]
    [] text = "{type:hello}" -> [value |-> [type |-> "hello"]]
    [] text = "null" -> [value |-> None]
    [] text = "{targetAudience:Devs,coreProblem:Shipping,context:b2c}" ->
         [value |-> [targetAudience |-> "Devs", coreProblem |-> "Shipping",
                     context |-> "b2c"]]
    [] text = "{context:portfolio}" -> [value |-> [context |-> "portfolio"]]
    [] text = "{context:fintech}" -> [value |-> [context |-> "fintech"]]
    [] text = "{note:hi}" -> [value |-> [note |-> "hi"]]
    [] OTHER -> [throws |-> "SyntaxError"]

\* obj?.type
typeOf(obj) == IF "type" \in DOMAIN obj THEN obj.type ELSE "undefined"

\* ws.send(JSON.stringify(msg)) on the socket ws
wsSend(c, ws, msg) == [c EXCEPT !.inbox[ws] = Append(@, msg)]

webSocketMessageAcksUnknown(c, ws, message) ==
  LET parsed == JSON_parse(message)
  IN IF "throws" \in DOMAIN parsed \/ typeOf(parsed.value) \notin {"ping", "status"}
     THEN wsSend(c, ws, [type |-> "ack"])
     ELSE IF typeOf(parsed.value) = "ping"
          THEN wsSend(c, ws, [type |-> "pong", ts |-> "now"])
          ELSE wsSend(c, ws, [type |-> "status",
                              phase |-> IF c.state = None THEN "idle" ELSE c.state.phase,
                              progress |-> IF c.state = None THEN 0 ELSE c.state.progress])

webSocketMessage(c, ws, message) ==
  LET parsed == JSON_parse(message)
  IN IF "throws" \in DOMAIN parsed
     THEN wsSend(c, ws, [type |-> "ack"])
     ELSE IF typeOf(parsed.value) = "ping"
          THEN wsSend(c, ws, [type |-> "pong", ts |-> "now"])
          ELSE IF typeOf(parsed.value) = "status"
               THEN wsSend(c, ws, [type |-> "status",
                                   phase |-> IF c.state = None THEN "idle" ELSE c.state.phase,
                                   progress |-> IF c.state = None THEN 0 ELSE c.state.progress])
               ELSE c

\* client messages handled so far
Handled == IF request = None THEN 0 ELSE request.n

ClientMessage ==
  \E ws \in ObserverSet, message \in ClientTexts :
    /\ sock[ws] = "open"
    /\ Handled < MaxMessages
    /\ Install(webSocketMessage(Ctx, ws, message))
    /\ request' = [procedure |-> "webSocketMessage", ws |-> ws,
                   message |-> message, n |-> Handled + 1]
    /\ UNCHANGED <<sock, joinedAt, wf, starts, architect, response>>

\* the only start of the session
ChannelStart ==
  \E payload \in UXResearchRequest :
    /\ starts = 0
    /\ start(payload)
    /\ UNCHANGED service

ChannelNext ==
  \/ ChannelStart
  \/ AnalyzeReturns
  \/ ScoutReturns
  \/ SynthesizeReturns
  \/ StageThrows
  \/ Connect
  \/ ClientMessage

ChannelSpec == Init /\ [][ChannelNext]_vars

\* what the sender is to receive for a message; onOther is the answer to a
\* message that parses but is neither ping nor status
RepliesTo(message, onOther) ==
  LET parsed == JSON_parse(message)
  IN CASE "throws" \in DOMAIN parsed -> <<[type |-> "ack"]>>
       [] "value" \in DOMAIN parsed /\ typeOf(parsed.value) = "ping" ->
            <<[type |-> "pong", ts |-> "now"]>>
       [] "value" \in DOMAIN parsed /\ typeOf(parsed.value) = "status" ->
            <<[type |-> "status", phase |-> status.phase, progress |-> status.progress]>>
       [] OTHER -> onOther

MessageStep(onOther) ==
  request' # request =>
    /\ state' = state
    /\ emitted' = emitted
    /\ inbox' = [inbox EXCEPT ![request'.ws] = @ \o RepliesTo(request'.message, onOther)]

\* C13 (as stated): every client message gets exactly one reply, sent to the
\* sending socket only: pong for ping, status with the current phase and
\* progress for status, ack for any other or malformed message; the session
\* state is left alone
C13_EveryMessageAnswered == [][MessageStep(<<[type |-> "ack"]>>)]_vars

\* C13 (amended): ping gets one pong, status one status reply with the current
\* phase and progress, text that is not JSON one ack; a message that parses
\* but is neither ping nor status gets no reply; replies go to the sending
\* socket only and the session state is left alone
C13_RepliesToSender == [][MessageStep(<<>>)]_vars

\* a status request was answered while the session worked, and the unknown
\* message that followed on the same socket went unanswered
C13_Witness ==
  /\ request # None
  /\ request.n = 2
  /\ request.message = "{type:hello}"
  /\ Len(inbox[request.ws]) >= 2
  /\ inbox[request.ws][Len(inbox[request.ws])] =
       [type |-> "status", phase |-> "synthesizing", progress |-> 70]

\* ----------------------------------------------------------- termination
\* the stage call that run awaits is answered: it returns or it throws
Settle(run) ==
  /\ InFlight(run)
  /\ AnalyzeReturns \/ ScoutReturns \/ SynthesizeReturns \/ StageThrows
  /\ wf'[run] # wf[run]

\* one session, started once, with observers coming and going
LiveNext ==
  \/ ChannelStart
  \/ AnalyzeReturns
  \/ ScoutReturns
  \/ SynthesizeReturns
  \/ StageThrows
  \/ Connect
  \/ Break

\* every stage invocation eventually returns or throws
LiveSpec == Init /\ [][LiveNext]_vars /\ \A run \in Runs : WF_vars(Settle(run))

\* the step that ends a run sets the phase: error when the awaited stage
\* threw, complete when the last stage returned; an ended run does nothing more
C14_EndStep ==
  \A run \in Runs :
    /\ (InFlight(run) /\ Finished(run)') =>
         IF wf'[run].pc = "failed"
         THEN /\ state'.phase = "error"
              /\ state'.logs[Len(state'.logs)].level = "error"
         ELSE /\ state'.phase = "complete"
              /\ wf[run].pc = "synthesize"
              /\ \A i \in 1..Len(state'.logs) :
                    i > Len(state.logs) => state'.logs[i].level # "error"
    /\ Finished(run) =>
         /\ wf'[run] = wf[run]
         /\ CallsOf(run)' = CallsOf(run)

\* C14: if every stage call returns or throws, every started run reaches
\* phase complete or phase error and then stops; it ends in error exactly
\* when a stage threw, and only a throw ends it before the last stage returned
C14_EveryRunEnds ==
  /\ \A run \in Runs : (wf[run].pc # "unstarted") ~> Finished(run)
  /\ [][C14_EndStep]_vars

\* a run ended early: its second stage threw, the session is in phase error
\* and the third stage was never called
C14_Witness ==
  \E run \in Runs :
    /\ wf[run].pc = "failed"
    /\ Len(CallsOf(run)) = 2
    /\ state.phase = "error"
    /\ state.progress = 35

\* ------------------------------------------------ the architect's synthesis
MaxTables == 2

\* table names of the analysed repositories
TableNames ==
  {"Teams", "order_items", "admin_users", "notes", "user_messages", "event_logs"}

\* String.prototype.toLowerCase on those names
toLowerCase(s) ==
  CASE s = "Teams" -> "teams"
    [] s = "User" -> "user"
    [] s = "Order" -> "order"
    [] OTHER -> s

\* the words of the agents' patterns that occur in a lower-case table or
\* field name
wordsIn(s) ==
  CASE s = "teams" -> {"team"}
    [] s = "order_items" -> {"order", "item"}
    [] s = "admin_users" -> {"admin", "user"}
    [] s = "user_messages" -> {"user", "message"}
    [] s = "event_logs" -> {"event", "log"}
    [] s = "plan_id" -> {"plan", "plan_id"}
    [] s = "user" -> {"user"}
    [] s = "order" -> {"order"}
    [] OTHER -> {}

\* /w1|w2|.../i.test(s)
test(words, s) == wordsIn(toLowerCase(s)) \cap words # {}

FieldLists ==
  { <<"id", "plan_id">>,
    <<"id", "name", "email">>,
    <<"id", "name", "email", "created_at">>,
    <<"id", "name", "email", "created_at", "updated_at", "status">> }

Tables == [name : TableNames, fields : FieldLists]

SeqsUpTo(S, n) == UNION { [1..k -> S] : k \in 0..n }

SemanticMaps == [tables : SeqsUpTo(Tables, MaxTables)]

\* what queryGemini does: it throws, or it returns a text
Completions ==
  { [throws |-> "AI unavailable"],
    [text |-> "I cannot help with that"],
    [text |-> "{targetAudience:Devs,coreProblem:Shipping,context:b2c}"],
    [text |-> "[fence]json{context:portfolio}[fence]"],
    [text |-> "{context:fintech}"],
    [text |-> "{note:hi}"],
    [text |-> "null"] }

\* response.replace(code fences, "").trim(); [fence] stands for a code fence
stripFences(text) ==
  IF text = "[fence]json{context:portfolio}[fence]" THEN "{context:portfolio}" ELSE text

\* obj.key || fallback: a missing or empty field gives the fallback
orDefault(obj, key, fallback) ==
  IF key \in DOMAIN obj /\ obj[key] # "" THEN obj[key] ELSE fallback

tableNamesLower(semanticMap) ==
  { toLowerCase(semanticMap.tables[i].name) : i \in 1..Len(semanticMap.tables) }

inferContextMarketplaceFirst(semanticMap) ==
  LET tableNames == tableNamesLower(semanticMap)
  IN IF \E t \in tableNames : test({"product", "order", "cart"}, t)
     THEN [targetAudience |-> "Online shoppers",
           coreProblem |-> "Purchasing products online",
           context |-> "marketplace"]
     ELSE IF \E t \in tableNames : test({"organization", "team", "subscription", "billing"}, t)
     THEN [targetAudience |-> "Business teams and organizations",
           coreProblem |-> "Managing team workflows and subscriptions",
           context |-> "b2b-saas"]
     ELSE IF \E t \in tableNames : test({"admin", "internal", "employee"}, t)
     THEN [targetAudience |-> "Internal team members",
           coreProblem |-> "Managing internal operations",
           context |-> "internal-tool"]
     ELSE [targetAudience |-> "General users",
           coreProblem |-> "Accessing and managing information",
           context |-> "other"]

inferContextFromHeuristics(semanticMap) ==
  LET tableNames == tableNamesLower(semanticMap)
  IN IF \E t \in tableNames : test({"organization", "team", "subscription", "billing"}, t)
     THEN [targetAudience |-> "Business teams and organizations",
           coreProblem |-> "Managing team workflows and subscriptions",
           context |-> "b2b-saas"]
     ELSE IF \E t \in tableNames : test({"product", "order", "cart"}, t)
     THEN [targetAudience |-> "Online shoppers",
           coreProblem |-> "Purchasing products online",
           context |-> "marketplace"]
     ELSE IF \E t \in tableNames : test({"admin", "internal", "employee"}, t)
     THEN [targetAudience |-> "Internal team members",
           coreProblem |-> "Managing internal operations",
           context |-> "internal-tool"]
     ELSE [targetAudience |-> "General users",
           coreProblem |-> "Accessing and managing information",
           context |-> "other"]

\* the try block reads three fields of the parsed value; a throw of the
\* service, of JSON.parse or of the field read on null lands in the catch
analyzeUserContext(semanticMap, completion) ==
  IF "throws" \in DOMAIN completion
  THEN inferContextFromHeuristics(semanticMap)
  ELSE LET parsed == JSON_parse(stripFences(completion.text))
       IN IF "throws" \in DOMAIN parsed \/ parsed.value = None
          THEN inferContextFromHeuristics(semanticMap)
          ELSE [targetAudience |-> orDefault(parsed.value, "targetAudience", "General users"),
                coreProblem |-> orDefault(parsed.value, "coreProblem", "Managing data and workflows"),
                context |-> orDefault(parsed.value, "context", "other")]

StoryTables == 8

generateStoryForTableLowerCase(table) ==
  LET tableName == toLowerCase(table.name)
  IN IF Len(table.fields) >= 3 \/ wordsIn(tableName) # {}
     THEN [asA |-> "user", mappedTo |-> tableName]
     ELSE None

generateStoryForTable(table) ==
  LET tableName == toLowerCase(table.name)
  IN CASE test({"user", "account", "profile"}, tableName) ->
            [asA |-> "registered user", mappedTo |-> table.name]
       [] test({"organization", "team", "workspace"}, tableName) ->
            [asA |-> "team admin", mappedTo |-> table.name]
       [] test({"product", "item", "inventory"}, tableName) ->
            [asA |-> "customer", mappedTo |-> table.name]
       [] test({"order", "transaction", "purchase"}, tableName) ->
            [asA |-> "customer", mappedTo |-> table.name]
       [] test({"message", "notification", "alert"}, tableName) ->
            [asA |-> "user", mappedTo |-> table.name]
       [] test({"session", "auth", "token"}, tableName) ->
            [asA |-> "user", mappedTo |-> table.name]
       [] Len(table.fields) >= 3 -> [asA |-> "user", mappedTo |-> table.name]
       [] OTHER -> None

RECURSIVE storiesOf(_)
storiesOf(tables) ==
  IF tables = <<>> THEN <<>>
  ELSE LET story == generateStoryForTable(Head(tables))
       IN IF story = None THEN storiesOf(Tail(tables))
          ELSE <<story>> \o storiesOf(Tail(tables))

generateUserStories(semanticMap) ==
  storiesOf(SubSeq(semanticMap.tables, 1,
                   IF Len(semanticMap.tables) < StoryTables
                   THEN Len(semanticMap.tables) ELSE StoryTables))

Zone(id, type) == [id |-> id, type |-> type]

\* a screen name is the sequence of the pieces its template joins
designWireframesDetailAlways(semanticMap) ==
  LET tables == semanticMap.tables
      dashboard == [screenName |-> <<"Dashboard">>, layout |-> "dashboard",
                    zones |-> <<Zone("header", "header"), Zone("sidebar", "sidebar"),
                                Zone("main-metrics", "card"), Zone("main-chart", "chart"),
                                Zone("recent-activity", "table")>>]
      list == [screenName |-> <<tables[1].name, " List">>, layout |-> "list",
               zones |-> <<Zone("header", "header"), Zone("main-table", "table"),
                           Zone("pagination", "footer")>>]
      detail == [screenName |-> <<tables[1].name, " Detail">>, layout |-> "two-column",
                 zones |-> <<Zone("header", "header"), Zone("main-content", "card"),
                             Zone("sidebar-info", "sidebar")>>]
      settings == [screenName |-> <<"Settings">>, layout |-> "single-column",
                   zones |-> <<Zone("header", "header"), Zone("settings-form", "form")>>]
  IN <<dashboard>>
     \o (IF tables # <<>> THEN <<list>> ELSE <<>>)
     \o (IF tables # <<>> THEN <<detail>> ELSE <<>>)
     \o <<settings>>

designWireframes(semanticMap) ==
  LET tables == semanticMap.tables
      dashboard == [screenName |-> <<"Dashboard">>, layout |-> "dashboard",
                    zones |-> <<Zone("header", "header"), Zone("sidebar", "sidebar"),
                                Zone("main-metrics", "card"), Zone("main-chart", "chart"),
                                Zone("recent-activity", "table")>>]
      list == [screenName |-> <<tables[1].name, " List">>, layout |-> "list",
               zones |-> <<Zone("header", "header"), Zone("main-table", "table"),
                           Zone("pagination", "footer")>>]
      detail == [screenName |-> <<tables[1].name, " Detail">>, layout |-> "two-column",
                 zones |-> <<Zone("header", "header"), Zone("main-content", "card"),
                             Zone("sidebar-info", "sidebar")>>]
      settings == [screenName |-> <<"Settings">>, layout |-> "single-column",
                   zones |-> <<Zone("header", "header"), Zone("settings-form", "form")>>]
  IN <<dashboard>>
     \o (IF tables # <<>> THEN <<list>> ELSE <<>>)
     \o (IF tables # <<>> /\ Len(tables[1].fields) > 3 THEN <<detail>> ELSE <<>>)
     \o <<settings>>

generateCodingPrompts ==
  << [title |-> "Project Setup & Theme Configuration"],
     [title |-> "Feature Implementation - Core CRUD"],
     [title |-> "Dashboard & Analytics"] >>

Architect_synthesize(requestId, semanticMap, visualResearch, payload, completion) ==
  LET userContext == analyzeUserContext(semanticMap, completion)
  IN [id |-> requestId,
      repoUrl |-> payload.repoUrl,
      semanticMap |-> semanticMap,
      targetAudience |-> userContext.targetAudience,
      coreProblem |-> userContext.coreProblem,
      context |-> userContext.context,
      userStories |-> generateUserStories(semanticMap),
      wireframes |-> designWireframes(semanticMap),
      recommendedStack |-> visualResearch.componentRecommendations,
      codingPrompts |-> generateCodingPrompts]

\* synthesize as a function of its inputs: a semantic map and what the
\* completion service does
ArchitectRequests ==
  [procedure : {"synthesize"}, semanticMap : SemanticMaps, completion : Completions]

ArchitectInit ==
  /\ SessionInit
  /\ request \in ArchitectRequests
  /\ response = None

Synthesize ==
  /\ response = None
  /\ response' = Architect_synthesize(RequestId, request.semanticMap,
                   [moodBoard |-> <<>>, componentRecommendations |-> <<>>],
                   [repoUrl |-> "repoA"], request.completion)
  /\ architect' = [requestId |-> RequestId, report |-> response']
  /\ UNCHANGED <<state, sock, inbox, joinedAt, emitted, calls, wf, starts, request>>

ArchitectSpec == ArchitectInit /\ [][Synthesize]_vars

\* the completion service threw or returned text that is not JSON
CompletionFailed(completion) ==
  \/ "throws" \in DOMAIN completion
  \/ "throws" \in DOMAIN JSON_parse(stripFences(completion.text))

\* the names of a semantic map's tables that carry one of the words
Carrying(semanticMap, words) ==
  { i \in 1..Len(semanticMap.tables) : test(words, semanticMap.tables[i].name) }

\* C15: when the completion service throws or returns text that is not JSON,
\* synthesize still returns a report, and its audience, problem and context are
\* those of the heuristic: b2b-saas if a table name carries organization, team,
\* subscription or billing; else marketplace for product, order, cart; else
\* internal-tool for admin, internal, employee; else other
C15_FallbackIsHeuristic ==
  (response # None /\ CompletionFailed(request.completion)) =>
    LET m == request.semanticMap
        expected ==
          IF Carrying(m, {"organization", "team", "subscription", "billing"}) # {}
          THEN <<"b2b-saas", "Business teams and organizations",
                 "Managing team workflows and subscriptions">>
          ELSE IF Carrying(m, {"product", "order", "cart"}) # {}
          THEN <<"marketplace", "Online shoppers", "Purchasing products online">>
          ELSE IF Carrying(m, {"admin", "internal", "employee"}) # {}
          THEN <<"internal-tool", "Internal team members", "Managing internal operations">>
          ELSE <<"other", "General users", "Accessing and managing information">>
    IN /\ "id" \in DOMAIN response
       /\ <<response.context, response.targetAudience, response.coreProblem>> = expected

\* the service threw on a map whose second table is of the team vocabulary
\* and whose first is of the order vocabulary: the answer is b2b-saas
C15_Witness ==
  /\ response # None
  /\ "throws" \in DOMAIN request.completion
  /\ Len(request.semanticMap.tables) = 2
  /\ request.semanticMap.tables[1].name = "order_items"
  /\ request.semanticMap.tables[2].name = "Teams"
  /\ response.context = "b2b-saas"

ContextEnum == {"internal-tool", "b2c", "b2b-saas", "marketplace", "portfolio", "other"}

\* C16: whatever the completion service does, the report's context is one of
\* the six values of the schema, and a response that is not a well-formed
\* classification is replaced by the heuristic one
C16_ContextAlwaysValid ==
  response # None =>
    /\ response.context \in ContextEnum
    /\ (LET parsed == JSON_parse(stripFences(request.completion.text))
        IN \/ "throws" \in DOMAIN request.completion
           \/ "throws" \in DOMAIN parsed
           \/ parsed.value = None
           \/ "context" \notin DOMAIN parsed.value
           \/ parsed.value.context \notin ContextEnum)
       => response.context = inferContextFromHeuristics(request.semanticMap).context

\* the ids of a wireframe's zones are pairwise distinct
DistinctZoneIds(w) ==
  \A i, j \in 1..Len(w.zones) : w.zones[i].id = w.zones[j].id => i = j

\* C18: the wireframes are Dashboard (layout dashboard, five zones) first and
\* Settings last, with a List screen of the first table between them exactly
\* when a table exists and a Detail screen of it after that exactly when the
\* first table has more than three fields; so two to four screens, screen
\* names pairwise distinct, zone ids distinct within each screen
C18_CanonicalWireframes ==
  response # None =>
    LET w == response.wireframes
        tables == request.semanticMap.tables
        hasList == tables # <<>>
        hasDetail == tables # <<>> /\ Len(tables[1].fields) > 3
        names == [i \in 1..Len(w) |-> w[i].screenName]
    IN /\ names = <<<<"Dashboard">>>>
                  \o (IF hasList THEN <<<<tables[1].name, " List">>>> ELSE <<>>)
                  \o (IF hasDetail THEN <<<<tables[1].name, " Detail">>>> ELSE <<>>)
                  \o <<<<"Settings">>>>
       /\ w[1].layout = "dashboard" /\ Len(w[1].zones) = 5
       /\ Len(w) \in 2..4
       /\ (tables = <<>> => Len(w) = 2)
       /\ \A i, j \in 1..Len(w) : names[i] = names[j] => i = j
       /\ \A i \in 1..Len(w) : DistinctZoneIds(w[i])

\* a first table of exactly three fields gave three screens, one of four
\* fields would have given four
C18_Witness ==
  /\ response # None
  /\ request.semanticMap.tables # <<>>
  /\ Len(request.semanticMap.tables[1].fields) = 3
  /\ Len(response.wireframes) = 3
  /\ response.wireframes[2].screenName = <<request.semanticMap.tables[1].name, " List">>

\* ------------------------------------------------------- the style scout
Registry(name, url, category, description) ==
  [name |-> name, url |-> url, category |-> category, description |-> description]

COMPONENT_REGISTRIES ==
  << Registry("@magicui", "https://magicui.design", "creative",
              "150+ free and open-source animated components for landing pages"),
     Registry("@aceternity", "https://ui.aceternity.com", "creative",
              "Modern component library with unique animations and effects"),
     Registry("@shadcnblocks", "https://shadcnblocks.com", "general",
              "Hundreds of extra blocks for shadcn/ui"),
     Registry("@origin-ui", "https://originui.com", "general",
              "Beautiful, copy-paste UI components"),
     Registry("@cult-ui", "https://www.cult-ui.com", "creative",
              "Curated set of headless and composable components with Framer Motion"),
     Registry("@tremor", "https://www.tremor.so", "functional",
              "React components for dashboards and data visualization"),
     Registry("@plate", "https://platejs.org", "functional",
              "AI-powered rich text editor for React"),
     Registry("@assistant-ui", "https://www.assistant-ui.com", "ai",
              "React primitives for AI chat interfaces"),
     Registry("@supabase", "https://supabase.com/ui", "functional",
              "Components that connect to Supabase backend"),
     Registry("@clerk", "https://clerk.com", "functional",
              "Authentication and user management components"),
     Registry("@8bitcn", "https://www.8bitcn.com", "retro",
              "8-bit styled retro components"),
     Registry("@retroui", "https://retroui.dev", "retro",
              "Neobrutalism styled components"),
     Registry("@kokonutui", "https://kokonutui.com", "creative",
              "Stunning components with Tailwind CSS and Motion"),
     Registry("@billingsdk", "https://billingsdk.com", "functional",
              "React components for SaaS billing and payments"),
     Registry("@lytenyte", "https://www.1771technologies.com", "functional",
              "High performance data grid component") >>

\* the strings a caller names as target registries
Targets == {"tremor", "lytenyte", "ui", "none"}

\* String.prototype.includes over the catalog's strings, for the needles the
\* agent and the callers use: tremor, lytenyte, ui, none, billing, clerk,
\* grid, table, dashboard, chart, ecommerce
includes(s, needle) ==
  CASE needle = "tremor" -> s \in {"@tremor", "https://www.tremor.so"}
    [] needle = "lytenyte" -> s = "@lytenyte"
    [] needle = "clerk" -> s \in {"@clerk", "https://clerk.com"}
    [] needle = "billing" -> s \in {"@billingsdk", "https://billingsdk.com",
                                    "React components for SaaS billing and payments"}
    [] needle = "ui" ->
         s \in {"@magicui", "https://magicui.design", "https://ui.aceternity.com",
                "@origin-ui", "https://originui.com", "@cult-ui",
                "https://www.cult-ui.com", "@assistant-ui",
                "https://www.assistant-ui.com", "https://supabase.com/ui",
                "@retroui", "https://retroui.dev", "@kokonutui",
                "https://kokonutui.com", "Hundreds of extra blocks for shadcn/ui"}
    [] needle = "grid" -> s = "High performance data grid component"
    [] needle = "dashboard" ->
         s = "React components for dashboards and data visualization"
    [] OTHER -> FALSE

Min(a, b) == IF a < b THEN a ELSE b

\* Array.prototype.slice(0, n)
slice(s, n) == SubSeq(s, 1, Min(n, Len(s)))

\* the elements of a sequence as a set
Range(s) == { s[i] : i \in 1..Len(s) }

allFields(semanticMap) ==
  UNION { Range(semanticMap.tables[i].fields) : i \in 1..Len(semanticMap.tables) }

\* the classifier, were the dashboard indicators tested before the shop ones
inferProjectContextDashboardFirst(semanticMap) ==
  LET tableNames == tableNamesLower(semanticMap)
      fields == { toLowerCase(f) : f \in allFields(semanticMap) }
  IN IF \/ \E t \in tableNames :
             test({"subscription", "billing", "plan", "organization", "team", "tenant"}, t)
        \/ \E f \in fields : test({"stripe", "plan_id", "subscription"}, f)
     THEN [type |-> "saas", features |-> {"billing", "multi-tenant"}]
     ELSE IF \E t \in tableNames :
               test({"metric", "analytics", "report", "log", "event"}, t)
     THEN [type |-> "dashboard", features |-> {"charts", "metrics"}]
     ELSE IF \E t \in tableNames :
               test({"product", "order", "cart", "payment", "inventory"}, t)
     THEN [type |-> "ecommerce", features |-> {"products", "checkout"}]
     ELSE IF \E t \in tableNames :
               test({"post", "comment", "follow", "like", "friend", "message"}, t)
     THEN [type |-> "social", features |-> {"feed", "profiles"}]
     ELSE [type |-> "general",
           features |-> IF \E t \in tableNames : test({"user", "account", "session"}, t)
                        THEN {"auth"} ELSE {}]

inferProjectContext(semanticMap) ==
  LET tableNames == tableNamesLower(semanticMap)
      fields == { toLowerCase(f) : f \in allFields(semanticMap) }
  IN IF \/ \E t \in tableNames :
             test({"subscription", "billing", "plan", "organization", "team", "tenant"}, t)
        \/ \E f \in fields : test({"stripe", "plan_id", "subscription"}, f)
     THEN [type |-> "saas", features |-> {"billing", "multi-tenant"}]
     ELSE IF \E t \in tableNames :
               test({"product", "order", "cart", "payment", "inventory"}, t)
     THEN [type |-> "ecommerce", features |-> {"products", "checkout"}]
     ELSE IF \E t \in tableNames :
               test({"metric", "analytics", "report", "log", "event"}, t)
     THEN [type |-> "dashboard", features |-> {"charts", "metrics"}]
     ELSE IF \E t \in tableNames :
               test({"post", "comment", "follow", "like", "friend", "message"}, t)
     THEN [type |-> "social", features |-> {"feed", "profiles"}]
     ELSE [type |-> "general",
           features |-> IF \E t \in tableNames : test({"user", "account", "session"}, t)
                        THEN {"auth"} ELSE {}]

\* [...new Map(selected.map((r) => [r.name, r])).values()]: one entry per
\* name, at the place of the name's first occurrence
RECURSIVE dedupe(_)
dedupe(s) ==
  IF s = <<>> THEN <<>>
  ELSE LET init == dedupe(SubSeq(s, 1, Len(s) - 1))
           last == s[Len(s)]
       IN IF \E i \in 1..Len(init) : init[i].name = last.name
          THEN [i \in 1..Len(init) |->
                  IF init[i].name = last.name THEN last ELSE init[i]]
          ELSE Append(init, last)

\* targetRegistries is the set of the strings the caller listed; a missing
\* list and an empty one take the same branch
selectRegistries(context, targetRegistries) ==
  LET Targeted(r) == \E t \in targetRegistries : includes(r.name, t) \/ includes(r.url, t)
      General(r) == r.category = "general"
      Saas(r) == includes(r.name, "billing") \/ includes(r.name, "clerk")
                   \/ r.category = "functional"
      Dashboard(r) == includes(r.name, "tremor") \/ includes(r.description, "dashboard")
                        \/ includes(r.description, "chart")
      Ecommerce(r) == includes(r.description, "ecommerce") \/ r.category = "functional"
      Creative(r) == r.category = "creative"
  IN IF targetRegistries # {}
     THEN SelectSeq(COMPONENT_REGISTRIES, Targeted)
     ELSE dedupe(
            slice(SelectSeq(COMPONENT_REGISTRIES, General), 2)
            \o (CASE context.type = "saas" ->
                       slice(SelectSeq(COMPONENT_REGISTRIES, Saas), 3)
                  [] context.type = "dashboard" ->
                       slice(SelectSeq(COMPONENT_REGISTRIES, Dashboard), 3)
                  [] context.type = "ecommerce" ->
                       slice(SelectSeq(COMPONENT_REGISTRIES, Ecommerce), 3)
                  [] OTHER -> slice(SelectSeq(COMPONENT_REGISTRIES, Creative), 2)))

\* Array.prototype.find over the matches of its predicate: the sequence of
\* the first match, empty if there is none
find(matches) == slice(matches, 1)

Recommend(found, componentName) ==
  [i \in 1..Len(found) |-> [registry |-> found[i].name, componentName |-> componentName]]

generateRecommendationsCreativeFirst(semanticMap, registries, context) ==
  LET tables == Range(semanticMap.tables)
      General(r) == r.category = "general"
      Grid(r) == includes(r.description, "grid") \/ includes(r.description, "table")
      Charts(r) == includes(r.name, "tremor") \/ includes(r.description, "dashboard")
      Ai(r) == r.category = "ai"
      Creative(r) == r.category = "creative"
      core == IF find(SelectSeq(registries, General)) # <<>> THEN find(SelectSeq(registries, General))
              ELSE slice(registries, 1)
  IN slice(Recommend(find(SelectSeq(registries, Creative)), "Hero & Effects")
     \o Recommend(core, "Base Components")
     \o (IF \E t \in tables : Len(t.fields) > 5
         THEN Recommend(find(SelectSeq(registries, Grid)), "Data Grid") ELSE <<>>)
     \o (IF context.type = "dashboard" \/ "metrics" \in context.features
         THEN Recommend(find(SelectSeq(registries, Charts)), "Charts & Metrics") ELSE <<>>)
     \o (IF "auth" \in context.features \/ \E t \in tables : test({"user", "account"}, t.name)
         THEN <<[registry |-> "@clerk", componentName |-> "Authentication"]>> ELSE <<>>)
     \o (IF \E t \in tables : test({"message", "chat", "conversation"}, t.name)
         THEN Recommend(find(SelectSeq(registries, Ai)), "Chat Interface") ELSE <<>>), 6)

generateRecommendations(semanticMap, registries, context) ==
  LET tables == Range(semanticMap.tables)
      General(r) == r.category = "general"
      Grid(r) == includes(r.description, "grid") \/ includes(r.description, "table")
      Charts(r) == includes(r.name, "tremor") \/ includes(r.description, "dashboard")
      Ai(r) == r.category = "ai"
      Creative(r) == r.category = "creative"
      core == IF find(SelectSeq(registries, General)) # <<>> THEN find(SelectSeq(registries, General))
              ELSE slice(registries, 1)
  IN slice(Recommend(core, "Base Components")
     \o (IF \E t \in tables : Len(t.fields) > 5
         THEN Recommend(find(SelectSeq(registries, Grid)), "Data Grid") ELSE <<>>)
     \o (IF context.type = "dashboard" \/ "metrics" \in context.features
         THEN Recommend(find(SelectSeq(registries, Charts)), "Charts & Metrics") ELSE <<>>)
     \o (IF "auth" \in context.features \/ \E t \in tables : test({"user", "account"}, t.name)
         THEN <<[registry |-> "@clerk", componentName |-> "Authentication"]>> ELSE <<>>)
     \o (IF \E t \in tables : test({"message", "chat", "conversation"}, t.name)
         THEN Recommend(find(SelectSeq(registries, Ai)), "Chat Interface") ELSE <<>>)
     \o Recommend(find(SelectSeq(registries, Creative)), "Hero & Effects"), 6)

\* scout without a browser-rendering token: captureScreenshots returns []
StyleScout_scout(requestId, semanticMap, targetRegistries) ==
  LET projectContext == inferProjectContext(semanticMap)
      selectedRegistries == selectRegistries(projectContext, targetRegistries)
  IN [moodBoard |-> <<>>,
      componentRecommendations |->
        generateRecommendations(semanticMap, selectedRegistries, projectContext)]

ScoutRequests ==
  [procedure : {"scout"}, semanticMap : SemanticMaps,
   targetRegistries : SUBSET Targets]

ScoutInit ==
  /\ SessionInit
  /\ request \in ScoutRequests
  /\ response = None

Scout ==
  /\ response = None
  /\ response' = StyleScout_scout(RequestId, request.semanticMap, request.targetRegistries)
  /\ UNCHANGED <<state, sock, inbox, joinedAt, emitted, calls, wf, starts,
                 architect, request>>

ScoutSpec == ScoutInit /\ [][Scout]_vars

\* the rules in their order, by the component each one recommends
RuleOrder ==
  <<"Base Components", "Data Grid", "Charts & Metrics", "Authentication",
    "Chat Interface", "Hero & Effects">>

RuleOf(componentName) == CHOOSE k \in 1..Len(RuleOrder) : RuleOrder[k] = componentName

\* the registries scout selected for the request
Selected ==
  Range(selectRegistries(inferProjectContext(request.semanticMap),
                         request.targetRegistries))

MaxRouteFiles == 2
MaxDeclarations == 2

\* A route file's content is the sequence of its declarations; a declaration
\* is given by the pattern of extractRoutesFromFile that matches it (1: the
\* Express/Hono call, 2: the tRPC procedure, 3: the exported handler) and the
\* groups of the match; "" stands for a group that did not take part.
Declaration(pattern, m1, m2, m3) ==
  [pattern |-> pattern, m1 |-> m1, m2 |-> m2, m3 |-> m3]

Declarations ==
  { Declaration(1, "get", "/users", ""),          \* app.get('/users', ...)
    Declaration(1, "GET", "/users", ""),          \* app.GET("/users", ...)
    Declaration(1, "post", "/users", ""),         \* app.post('/users', ...)
    Declaration(2, "list", "publicProcedure", "query"),  \* list: publicProcedure.query
    Declaration(3, "async ", "GET", ""),          \* export async function GET
    Declaration(3, "", "GET", "") }               \* export function GET

\* String.prototype.toUpperCase on the first groups above
toUpperCase(s) ==
  CASE s = "get" -> "GET"
    [] s = "post" -> "POST"
    [] s = "list" -> "LIST"
    [] s = "async " -> "ASYNC "
    [] OTHER -> s

RouteFilePaths == <<"api/a.ts", "api/b.ts", "api/c.ts">>

\* filePath.replace(/\.(ts|js)$/, "")
stripExtension(filePath) ==
  CASE filePath = "api/a.ts" -> "api/a"
    [] filePath = "api/b.ts" -> "api/b"
    [] filePath = "api/c.ts" -> "api/c"
    [] OTHER -> filePath

\* the body of the while loop for one match
routeOfMatch(filePath, match) ==
  IF match.m2 # "" /\ match.m1 # ""
  THEN <<[method |-> toUpperCase(match.m1), path |-> <<match.m2>>]>>
  ELSE IF match.m3 # ""
  THEN <<[method |-> IF match.m3 = "query" THEN "GET" ELSE "POST",
          path |-> <<"/", stripExtension(filePath), "/",
                     IF match.m1 # "" THEN match.m1 ELSE "procedure">>]>>
  ELSE <<>>

RECURSIVE routesOfMatches(_, _)
routesOfMatches(filePath, matches) ==
  IF matches = <<>> THEN <<>>
  ELSE routeOfMatch(filePath, Head(matches)) \o routesOfMatches(filePath, Tail(matches))

\* routes.filter((r, i, arr) => arr.findIndex(same path and method) === i)
RECURSIVE firstOccurrences(_)
firstOccurrences(routes) ==
  IF routes = <<>> THEN <<>>
  ELSE LET init == firstOccurrences(SubSeq(routes, 1, Len(routes) - 1))
           last == routes[Len(routes)]
       IN IF \E i \in 1..Len(init) : init[i] = last THEN init ELSE Append(init, last)

extractRoutesFromFile(filePath, content) ==
  LET Of(p) == LET Matches(d) == d.pattern = p IN SelectSeq(content, Matches)
  IN firstOccurrences(routesOfMatches(filePath, Of(1))
                      \o routesOfMatches(filePath, Of(2))
                      \o routesOfMatches(filePath, Of(3)))

\* the loop of analyze over the route files it read
RECURSIVE collectApiRoutes(_)
collectApiRoutes(files) ==
  IF files = <<>> THEN <<>>
  ELSE extractRoutesFromFile(Head(files).path, Head(files).content)
       \o collectApiRoutes(Tail(files))

\* what analyze returns for the route files: apiRoutes is left out when empty
analyzeApiRoutes(files) ==
  LET apiRoutes == collectApiRoutes(files)
  IN IF Len(apiRoutes) > 0 THEN [tables |-> <<>>, apiRoutes |-> apiRoutes]
     ELSE [tables |-> <<>>]

Contents == SeqsUpTo(Declarations, MaxDeclarations)

\* route files of a repository, in file-tree order, with distinct paths
RouteFileLists ==
  UNION { { [i \in 1..k |-> [path |-> RouteFilePaths[i], content |-> c[i]]] :
              c \in [1..k -> Contents] } : k \in 0..MaxRouteFiles }

AnalystInit ==
  /\ SessionInit
  /\ request \in [procedure : {"analyze"}, routeFiles : RouteFileLists]
  /\ response = None

Analyze ==
  /\ response = None
  /\ response' = analyzeApiRoutes(request.routeFiles)
  /\ UNCHANGED <<state, sock, inbox, joinedAt, emitted, calls, wf, starts,
                 architect, request>>

AnalystSpec == AnalystInit /\ [][Analyze]_vars

\* C20: the api routes of a semantic map hold no two entries of the same
\* path and method, whatever the route files declare
C20_RoutesDistinct ==
  (response # None /\ "apiRoutes" \in DOMAIN response) =>
    \A i, j \in 1..Len(response.apiRoutes) :
      (/\ response.apiRoutes[i].path = response.apiRoutes[j].path
       /\ response.apiRoutes[i].method = response.apiRoutes[j].method) => i = j

\* ------------------------------------------ the three stages in one run
\* what the completion service does, and whom the caller targets, in the runs
\* of the whole pipeline
PipelineCompletions ==
  { [throws |-> "AI unavailable"],
    [text |-> "{targetAudience:Devs,coreProblem:Shipping,context:b2c}"] }

PipelineTargets == { {}, {"none"}, {"tremor", "lytenyte", "ui"} }

\* a run is given by what analyze finds, whom the caller targets and what
\* the completion service does
PipelineInit ==
  /\ SessionInit
  /\ request \in [procedure : {"pipeline"}, semanticMap : SemanticMaps,
                  targetRegistries : PipelineTargets,
                  completion : PipelineCompletions]
  /\ response = None

PipelineStart ==
  /\ starts = 0
  /\ start([repoUrl |-> "repoA", targetRegistries |-> request.targetRegistries])
  /\ UNCHANGED service

\* analyze returns the semantic map of the repository
PipelineAnalyzed ==
  \E run \in Runs :
    /\ wf[run].pc = "analyze"
    /\ LET semanticMap == request.semanticMap
       IN /\ Install(workflowPhase2(Ctx, run, semanticMap))
          /\ wf' = [wf EXCEPT ![run] = [@ EXCEPT !.pc = "scout",
                                                 !.semanticMap = semanticMap]]
    /\ UNCHANGED <<sock, joinedAt, starts>>
    /\ UNCHANGED service

\* scout returns for the semantic map the orchestrator passed on
PipelineScouted ==
  \E run \in Runs :
    /\ wf[run].pc = "scout"
    /\ LET visualResearch == StyleScout_scout(RequestId, wf[run].semanticMap,
                                              wf[run].payload.targetRegistries)
       IN /\ Install(workflowPhase3(Ctx, run, visualResearch))
          /\ wf' = [wf EXCEPT ![run] = [@ EXCEPT !.pc = "synthesize",
                                                 !.visualResearch = visualResearch]]
          /\ response' = visualResearch
    /\ UNCHANGED <<sock, joinedAt, starts, architect, request>>

\* synthesize stores and returns the report, the orchestrator completes
PipelineSynthesized ==
  \E run \in Runs :
    /\ wf[run].pc = "synthesize"
    /\ LET finalReport == Architect_synthesize(RequestId, wf[run].semanticMap,
                            wf[run].visualResearch, wf[run].payload,
                            request.completion)
       IN /\ Install(workflowComplete(Ctx, finalReport))
          /\ architect' = [requestId |-> RequestId, report |-> finalReport]
          /\ wf' = [wf EXCEPT ![run] = [@ EXCEPT !.pc = "done"]]
    /\ UNCHANGED <<sock, joinedAt, starts, request, response>>

PipelineNext ==
  \/ PipelineStart
  \/ PipelineAnalyzed
  \/ PipelineScouted
  \/ PipelineSynthesized

PipelineSpec == PipelineInit /\ [][PipelineNext]_vars

\* C17: the report of a pipeline run is well formed: every user story is
\* mapped to a table name of the report's semantic map; the wireframes'
\* screen names are pairwise distinct; the recommended stack has at most six
\* entries and is the list scout returned; the coding prompts are the three
\* of setup, feature, dashboard in this order; the semantic map is the one
\* analyze returned
C17_ReportWellFormed ==
  (state # None /\ state.finalReport # None) =>
    LET r == state.finalReport
        tableNames == { r.semanticMap.tables[i].name : i \in 1..Len(r.semanticMap.tables) }
    IN /\ \A i \in 1..Len(r.userStories) : r.userStories[i].mappedTo \in tableNames
       /\ \A i, j \in 1..Len(r.wireframes) :
            r.wireframes[i].screenName = r.wireframes[j].screenName => i = j
       /\ Len(r.recommendedStack) <= 6
       /\ r.recommendedStack = response.componentRecommendations
       /\ [i \in 1..Len(r.codingPrompts) |-> r.codingPrompts[i].title] =
            <<"Project Setup & Theme Configuration",
              "Feature Implementation - Core CRUD",
              "Dashboard & Analytics">>
       /\ r.semanticMap = request.semanticMap

\* a report of two stories, four screens and six recommendations
C17_Witness ==
  /\ state # None
  /\ state.finalReport # None
  /\ Len(state.finalReport.userStories) = 2
  /\ Len(state.finalReport.wireframes) = 4
  /\ Len(state.finalReport.recommendedStack) = 6
  /\ state.finalReport.userStories[1].mappedTo = "event_logs"

\* --------------------------------------------- the method of each route
HttpMethods == {"GET", "POST", "PUT", "PATCH", "DELETE"}

\* C21: every route of the semantic map carries one of the five HTTP
\* methods, whichever idiom (verb call, RPC procedure, exported handler)
\* declared it
C21_MethodsAreHttpVerbs ==
  (response # None /\ "apiRoutes" \in DOMAIN response) =>
    \A i \in 1..Len(response.apiRoutes) :
      response.apiRoutes[i].method \in HttpMethods

\* ------------------------------------------------- schema text to tables
MaxModels == 2
MaxLines == 2

\* One line of a model body: the text is prefix, name, blanks, type, blanks,
\* attrs. The prefix is "" for a declaration and "// " for a comment.
Line(prefix, name, type, attrs) ==
  [prefix |-> prefix, name |-> name, type |-> type, attrs |-> attrs]

Lines ==
  { Line("", "id", "Int", "@id"),
    Line("", "tags", "String[]", ""),
    Line("", "author", "User", "@relation(fields: [authorId])"),
    Line("// ", "tags", "String[]", "") }

ModelNames == <<"Post", "Comment", "User">>

\* model <name> { <lines> }
PrismaModel(name, lines) == [kind |-> "model", name |-> name, lines |-> lines]

\* export const <name> = pgTable('<name>', { <field>: ..., })
DrizzleTable(name, fields) == [kind |-> "table", name |-> name, fields |-> fields]

DrizzleTables == { DrizzleTable("users", <<"id", "email">>) }

\* the declarations of a schema text, in the order of the text
SchemaContents ==
  UNION { { [i \in 1..k |-> d[i]] :
              d \in [1..k -> { PrismaModel(ModelNames[i], b) :
                                 i \in 1..k, b \in SeqsUpTo(Lines, MaxLines) }
                             \cup DrizzleTables] } : k \in 0..MaxModels }

\* the longest run of word characters a text starts with: what (\w+) takes
leadingWord(s) ==
  CASE s = "String[]" -> "String"
    [] OTHER -> s

\* trimmed.match(/^(\w+)\s+(\w+)/) on a line that was not skipped
fieldMatch(line) == <<line.name, leadingWord(line.type)>>

\* /\[\]$/.test(s)
endsInBrackets(s) == s \in {"String[]"}

\* trimmed.includes("@relation")
includesRelation(line) ==
  line.attrs = "@relation(fields: [authorId])"

\* the loop over the lines of one model body
RECURSIVE fieldsOfLines(_)
fieldsOfLines(lines) ==
  IF lines = <<>> THEN <<>>
  ELSE LET line == Head(lines)
       IN (IF line.prefix = "// " THEN <<>> ELSE <<fieldMatch(line)[1]>>)
          \o fieldsOfLines(Tail(lines))

RECURSIVE relationshipsOfLines(_)
relationshipsOfLines(lines) ==
  IF lines = <<>> THEN <<>>
  ELSE LET line == Head(lines)
       IN (IF line.prefix # "// "
              /\ (includesRelation(line) \/ endsInBrackets(fieldMatch(line)[2]))
           THEN <<fieldMatch(line)[1]>> ELSE <<>>)
          \o relationshipsOfLines(Tail(lines))

tableOfModel(model) ==
  LET relationships == relationshipsOfLines(model.lines)
  IN IF Len(relationships) > 0
     THEN [name |-> model.name, fields |-> fieldsOfLines(model.lines),
           relationships |-> relationships]
     ELSE [name |-> model.name, fields |-> fieldsOfLines(model.lines)]

RECURSIVE tablesOf(_)
tablesOf(declarations) ==
  IF declarations = <<>> THEN <<>>
  ELSE LET d == Head(declarations)
       IN <<IF d.kind = "model" THEN tableOfModel(d)
            ELSE [name |-> d.name, fields |-> d.fields]>>
          \o tablesOf(Tail(declarations))

\* the tables of the models first, then the tables of the table declarations
parseSchemaToTables(schemaContent) ==
  LET IsModel(d) == d.kind = "model"
      IsTable(d) == d.kind = "table"
  IN tablesOf(SelectSeq(schemaContent, IsModel))
     \o tablesOf(SelectSeq(schemaContent, IsTable))

SchemaInit ==
  /\ SessionInit
  /\ request \in [procedure : {"parseSchemaToTables"}, schemaContent : SchemaContents]
  /\ response = None

ParseSchema ==
  /\ response = None
  /\ response' = [tables |-> parseSchemaToTables(request.schemaContent)]
  /\ UNCHANGED <<state, sock, inbox, joinedAt, emitted, calls, wf, starts,
                 architect, request>>

SchemaSpec == SchemaInit /\ [][ParseSchema]_vars

\* C22: the i-th model declaration yields the i-th table, named after the
\* model, with the declared field names in order, and a field is in the
\* table's relationships exactly when its declared type ends in [] or its
\* line carries a relation annotation
C22_ModelsToTables ==
  response # None =>
    LET IsModel(d) == d.kind = "model"
        models == SelectSeq(request.schemaContent, IsModel)
    IN /\ Len(response.tables) >= Len(models)
       /\ \A i \in 1..Len(models) :
            LET table == response.tables[i]
                Declared(l) == l.prefix = ""
                declared == SelectSeq(models[i].lines, Declared)
                related == IF "relationships" \in DOMAIN table
                           THEN Range(table.relationships) ELSE {}
            IN /\ table.name = models[i].name
               /\ table.fields = [j \in 1..Len(declared) |-> declared[j].name]
               /\ related = { declared[j].name : j \in
                                { k \in 1..Len(declared) :
                                    \/ endsInBrackets(declared[k].type)
                                    \/ includesRelation(declared[k]) } }

\* ------------------------------------- analyze over a content provider
\* A path is the sequence of its segments: <<"db", "schema.ts">> stands for
\* db/schema.ts and <<>> for the root of the repository.
Item(type, path) == [type |-> type, name |-> path[Len(path)], path |-> path]

\* What octokit.repos.getContent answers for a path of a repository: it
\* throws for the paths in failing and for a path the repository has not, the
\* listing of a directory is an array of items, a file is one object with
\* its content.
getContent(repository, failing, path) ==
  IF path \in failing THEN [kind |-> "throws"]
  ELSE IF path \in DOMAIN repository.dirs
  THEN [kind |-> "array", items |-> repository.dirs[path]]
  ELSE IF path \in DOMAIN repository.files
  THEN [kind |-> "file", content |-> repository.files[path]]
  ELSE [kind |-> "throws"]

\* item.name.startsWith(".")
startsWithDot(name) == name \in {".env", ".git", ".github"}

DepthLimit == 3

Requested(path) == [event |-> "getContent", path |-> path]
Found(path) == [event |-> "file", path |-> path]

\* fetchFileTree as the sequence of what it does: the listings it requests
\* and the files it collects, in order
RECURSIVE fetchFileTree(_, _, _, _)
RECURSIVE treeOfItems(_, _, _, _)
fetchFileTree(repository, failing, path, depth) ==
  IF depth > DepthLimit THEN <<>>
  ELSE LET data == getContent(repository, failing, path)
       IN <<Requested(path)>>
          \o (IF data.kind = "throws" THEN <<>>
              ELSE IF data.kind # "array" THEN <<Found(path)>>
              ELSE treeOfItems(repository, failing, data.items, depth))

treeOfItems(repository, failing, items, depth) ==
  IF items = <<>> THEN <<>>
  ELSE LET item == Head(items)
       IN (IF item.type = "file" THEN <<Found(item.path)>>
           ELSE IF /\ item.type = "dir"
                   /\ ~startsWithDot(item.name)
                   /\ item.name # "node_modules"
           THEN fetchFileTree(repository, failing, item.path, depth + 1)
           ELSE <<>>)
          \o treeOfItems(repository, failing, Tail(items), depth)

pathsOf(events, kind) ==
  LET Is(e) == e.event = kind
      selected == SelectSeq(events, Is)
  IN [i \in 1..Len(selected) |-> selected[i].path]

\* fetchFileContent: the text of a file, or a throw
fetchFileContent(repository, failing, path) ==
  LET data == getContent(repository, failing, path)
  IN IF data.kind = "file" THEN data ELSE [kind |-> "throws"]

\* SCHEMA_PATTERNS.some(pattern => pattern.test(path))
SchemaFileNames ==
  <<"schema.prisma", "drizzle.schema.ts", "schema.ts", "models.ts",
    "entities.ts", "auth.schema.ts", "user.models.ts", "team.entities.ts">>

isSchemaFile(path) ==
  \/ path # <<>> /\ path[Len(path)] \in Range(SchemaFileNames)
  \/ \E i \in 1..Len(path) - 1 : path[i] = "migrations"

\* API_ROUTE_PATTERNS.some(pattern => pattern.test(path))
isApiRouteFile(path) ==
  \E i \in 1..Len(path) - 1 :
    path[i] \in {"route", "routes", "api", "router", "routers", "controller",
                 "controllers", "handler", "handlers"}

SchemaReadCap == 5
RouteReadCap == 10

\* schemaFiles.slice(0, 5) and apiRouteFiles.slice(0, 10)
schemaReadsAll(schemaFiles) == schemaFiles

schemaReads(schemaFiles) == slice(schemaFiles, SchemaReadCap)

routeReads(apiRouteFiles) == slice(apiRouteFiles, RouteReadCap)

\* the schema loop, were a failed read to end it
RECURSIVE readSchemaFilesUntilFailure(_, _, _)
readSchemaFilesUntilFailure(repository, failing, paths) ==
  IF paths = <<>> THEN <<>>
  ELSE LET data == fetchFileContent(repository, failing, Head(paths))
       IN IF data.kind = "throws" THEN <<>>
          ELSE <<[kind |-> "comment", path |-> Head(paths)]>> \o data.content.schema
               \o readSchemaFilesUntilFailure(repository, failing, Tail(paths))

\* the schema loop: the text read so far grows by a header comment and the
\* content of each file that could be read
RECURSIVE readSchemaFiles(_, _, _)
readSchemaFiles(repository, failing, paths) ==
  IF paths = <<>> THEN <<>>
  ELSE LET data == fetchFileContent(repository, failing, Head(paths))
       IN (IF data.kind = "throws" THEN <<>>
           ELSE <<[kind |-> "comment", path |-> Head(paths)]>> \o data.content.schema)
          \o readSchemaFiles(repository, failing, Tail(paths))

\* the route loop
RECURSIVE readRouteFiles(_, _, _)
readRouteFiles(repository, failing, paths) ==
  IF paths = <<>> THEN <<>>
  ELSE LET data == fetchFileContent(repository, failing, Head(paths))
       IN (IF data.kind = "throws" THEN <<>>
           ELSE extractRoutesFromFile(Head(paths), data.content.routes))
          \o readRouteFiles(repository, failing, Tail(paths))

\* analyze, were it to throw when it finds no file
RepoAnalyst_analyzeNeedsFiles(repoUrl, repository, failing) ==
  LET parsed == parseGitHubUrl(repoUrl)
      walk == fetchFileTree(repository, failing, <<>>, 0)
      fileTree == pathsOf(walk, "file")
      schemaFiles == schemaReads(SelectSeq(fileTree, isSchemaFile))
      apiRouteFiles == routeReads(SelectSeq(fileTree, isApiRouteFile))
      schemaContent == readSchemaFiles(repository, failing, schemaFiles)
      apiRoutes == readRouteFiles(repository, failing, apiRouteFiles)
      tables == parseSchemaToTables(schemaContent)
  IN IF "throws" \in DOMAIN parsed THEN parsed
     ELSE IF fileTree = <<>> THEN [throws |-> "Repository is empty or unreachable"]
     ELSE [returns |-> IF Len(apiRoutes) > 0
                       THEN [tables |-> tables, apiRoutes |-> apiRoutes]
                       ELSE [tables |-> tables],
           fileTree |-> fileTree,
           listings |-> pathsOf(walk, "getContent"),
           schemaReads |-> schemaFiles,
           routeReads |-> apiRouteFiles]

\* analyze: what it returns, the file tree it stores, and the requests it
\* issues to the content provider, in order
RepoAnalyst_analyze(repoUrl, repository, failing) ==
  LET parsed == parseGitHubUrl(repoUrl)
      walk == fetchFileTree(repository, failing, <<>>, 0)
      fileTree == pathsOf(walk, "file")
      schemaFiles == schemaReads(SelectSeq(fileTree, isSchemaFile))
      apiRouteFiles == routeReads(SelectSeq(fileTree, isApiRouteFile))
      schemaContent == readSchemaFiles(repository, failing, schemaFiles)
      apiRoutes == readRouteFiles(repository, failing, apiRouteFiles)
      tables == parseSchemaToTables(schemaContent)
  IN IF "throws" \in DOMAIN parsed THEN parsed
     ELSE [returns |-> IF Len(apiRoutes) > 0
                       THEN [tables |-> tables, apiRoutes |-> apiRoutes]
                       ELSE [tables |-> tables],
           fileTree |-> fileTree,
           listings |-> pathsOf(walk, "getContent"),
           schemaReads |-> schemaFiles,
           routeReads |-> apiRouteFiles]

\* ------------------------------------------ repositories with many files
MaxSchemaCandidates == 6
MaxRouteCandidates == 11
MaxFailing == 2

RouteFileNames ==
  <<"a.ts", "b.ts", "c.ts", "d.ts", "e.ts", "f.ts", "g.ts", "h.ts", "i.ts",
    "j.ts", "k.ts", "l.ts", "m.ts">>

RouteLiterals ==
  <<"/a", "/b", "/c", "/d", "/e", "/f", "/g", "/h", "/i", "/j", "/k", "/l", "/m">>

SchemaModelNames ==
  <<"User", "Post", "Comment", "Order", "Team", "Plan", "Event", "Message">>

\* the text of a file: the schema declarations and the route declarations
\* it holds
Text(schema, routes) == [schema |-> schema, routes |-> routes]

\* A repository with k schema files in db/ and m route files in api/; with
\* shared, api/ starts with a schema.ts, which is a candidate of both kinds.
FlatRepository(k, m, shared) ==
  LET db == [i \in 1..k |-> Item("file", <<"db", SchemaFileNames[i]>>)]
      api == (IF shared THEN <<Item("file", <<"api", "schema.ts">>)>> ELSE <<>>)
             \o [j \in 1..m |-> Item("file", <<"api", RouteFileNames[j]>>)]
      SchemaText(p) ==
        LET i == CHOOSE n \in 1..k : SchemaFileNames[n] = p[2]
        IN Text(<<PrismaModel(SchemaModelNames[i], <<Line("", "id", "Int", "@id")>>)>>, <<>>)
      RouteText(p) ==
        IF p[2] = "schema.ts"
        THEN Text(<<DrizzleTable("users", <<"id", "email">>)>>,
                  <<Declaration(1, "post", "/users", "")>>)
        ELSE LET j == CHOOSE n \in 1..m : RouteFileNames[n] = p[2]
             IN Text(<<>>, <<Declaration(1, "get", RouteLiterals[j], "")>>)
  IN [dirs |-> (<<>> :> <<Item("dir", <<"db">>), Item("dir", <<"api">>)>>)
               @@ (<<"db">> :> db) @@ (<<"api">> :> api),
      files |-> [p \in Range([i \in 1..k |-> <<"db", SchemaFileNames[i]>>])
                         |-> SchemaText(p)]
                @@ [p \in { item.path : item \in Range(api) } |-> RouteText(p)]]

FlatRepositories ==
  { FlatRepository(k, m, shared) :
      k \in 0..MaxSchemaCandidates, m \in 0..MaxRouteCandidates, shared \in BOOLEAN }

PathsOf(repository) == DOMAIN repository.dirs \cup DOMAIN repository.files

\* the subsets of S of at most n elements
RECURSIVE SubsetsUpTo(_, _)
SubsetsUpTo(S, n) ==
  IF n = 0 THEN {{}}
  ELSE LET smaller == SubsetsUpTo(S, n - 1)
       IN smaller \cup { s \cup {x} : s \in smaller, x \in S }

\* the provider fails for a few paths of the repository, or for every path
Failings(repository) ==
  SubsetsUpTo(PathsOf(repository) \ {<<>>}, MaxFailing) \cup {PathsOf(repository)}

ReadInit ==
  /\ SessionInit
  /\ \E repository \in FlatRepositories :
       \E failing \in Failings(repository) :
         request = [procedure |-> "analyze",
                    repoUrl |-> <<"https:", "", "github.com", "o", "r">>,
                    repository |-> repository, failing |-> failing]
  /\ response = None

AnalyzeRepository ==
  /\ response = None
  /\ response' = RepoAnalyst_analyze(request.repoUrl, request.repository, request.failing)
  /\ UNCHANGED <<state, sock, inbox, joinedAt, emitted, calls, wf, starts,
                 architect, request>>

ReadSpec == ReadInit /\ [][AnalyzeRepository]_vars

\* C23: one analyze run reads at most 5 schema files and at most 10 route
\* files: exactly the first 5 schema candidates and the first 10 route
\* candidates of the file tree, in its order, whichever reads fail
C23_ReadsCapped ==
  response # None =>
    LET schemaCandidates == SelectSeq(response.fileTree, isSchemaFile)
        routeCandidates == SelectSeq(response.fileTree, isApiRouteFile)
    IN /\ Len(response.schemaReads) <= 5
       /\ Len(response.routeReads) <= 10
       /\ Len(response.schemaReads) = Min(5, Len(schemaCandidates))
       /\ Len(response.routeReads) = Min(10, Len(routeCandidates))
       /\ \A i \in 1..Len(response.schemaReads) :
            response.schemaReads[i] = schemaCandidates[i]
       /\ \A i \in 1..Len(response.routeReads) :
            response.routeReads[i] = routeCandidates[i]
       /\ \A i \in 1..Len(schemaCandidates) :
            i > 5 => schemaCandidates[i] \notin Range(response.schemaReads)
       /\ \A i \in 1..Len(routeCandidates) :
            i > 10 => routeCandidates[i] \notin Range(response.routeReads)

\* more candidates than the caps of both kinds, and a read of each kind failed
C23_Witness ==
  /\ response # None
  /\ Len(SelectSeq(response.fileTree, isSchemaFile)) > 5
  /\ Len(SelectSeq(response.fileTree, isApiRouteFile)) > 10
  /\ request.failing \cap Range(response.schemaReads) # {}
  /\ request.failing \cap Range(response.routeReads) # {}

\* the concatenation of the sequences of a sequence
RECURSIVE Flatten(_)
Flatten(seqs) == IF seqs = <<>> THEN <<>> ELSE Head(seqs) \o Flatten(Tail(seqs))

\* C24: whichever schema and route files fail to be read, analyze returns a
\* semantic map, and the map is the one of the files that were read
\* successfully: the tables of their schema text and the routes of their
\* route declarations, in reading order
C24_FailedReadsContributeNothing ==
  response # None =>
    /\ "returns" \in DOMAIN response
    /\ LET Succeeded(path) == path \notin request.failing
           schemaRead == SelectSeq(response.schemaReads, Succeeded)
           routesRead == SelectSeq(response.routeReads, Succeeded)
           tables == parseSchemaToTables(Flatten(
                       [i \in 1..Len(schemaRead) |->
                          request.repository.files[schemaRead[i]].schema]))
           apiRoutes == collectApiRoutes(
                          [i \in 1..Len(routesRead) |->
                             [path |-> routesRead[i],
                              content |-> request.repository.files[routesRead[i]].routes]])
       IN /\ response.returns.tables = tables
          /\ IF apiRoutes = <<>> THEN "apiRoutes" \notin DOMAIN response.returns
             ELSE /\ "apiRoutes" \in DOMAIN response.returns
                  /\ response.returns.apiRoutes = apiRoutes

\* a schema file and a route file failed, and files after them were read
C24_Witness ==
  /\ response # None
  /\ \E i, j \in 1..Len(response.schemaReads) :
       /\ i < j
       /\ response.schemaReads[i] \in request.failing
       /\ response.schemaReads[j] \notin request.failing
  /\ \E i, j \in 1..Len(response.routeReads) :
       /\ i < j
       /\ response.routeReads[i] \in request.failing
       /\ response.routeReads[j] \notin request.failing
  /\ Len(response.returns.tables) > 0
  /\ "apiRoutes" \in DOMAIN response.returns

\* ------------------------------------------ repositories of nested directories
MaxNesting == 5

DirNames == <<"src", "lib", "core", "util", "deep", "deeper", "deepest">>

Extras == {".env", ".git", "node_modules"}

\* A chain of directories src/lib/core/... nested n deep, an index.ts in each
\* of them; the directory at level at also holds the extras: the file .env,
\* the directories .git and node_modules, each with a file inside.
NestedRepository(n, at, extras) ==
  LET dir(level) == SubSeq(DirNames, 1, level)
      extraItems(level) ==
        IF level # at THEN <<>>
        ELSE (IF ".env" \in extras
              THEN <<Item("file", Append(dir(level), ".env"))>> ELSE <<>>)
          \o (IF ".git" \in extras
              THEN <<Item("dir", Append(dir(level), ".git"))>> ELSE <<>>)
          \o (IF "node_modules" \in extras
              THEN <<Item("dir", Append(dir(level), "node_modules"))>> ELSE <<>>)
      listing(level) ==
        extraItems(level)
        \o <<Item("file", Append(dir(level), "index.ts"))>>
        \o (IF level < n THEN <<Item("dir", dir(level + 1))>> ELSE <<>>)
      inside == [name \in {".git", "node_modules"} |->
                   Append(Append(dir(at), name), "index.js")]
  IN [dirs |-> [p \in { dir(level) : level \in 0..n } |-> listing(Len(p))]
               @@ [p \in { Append(dir(at), name) : name \in extras \ {".env"} } |->
                     <<Item("file", inside[p[Len(p)]])>>],
      files |-> [p \in { Append(dir(level), "index.ts") : level \in 0..n }
                       \cup { Append(dir(at), ".env") : name \in extras \cap {".env"} }
                       \cup { inside[name] : name \in extras \ {".env"} }
                   |-> Text(<<>>, <<>>)]]

TreeInit ==
  /\ SessionInit
  /\ \E n \in 0..MaxNesting : \E at \in 0..n : \E extras \in SUBSET Extras :
       LET repository == NestedRepository(n, at, extras)
       IN \E failing \in Failings(repository) :
            request = [procedure |-> "analyze",
                       repoUrl |-> <<"https:", "", "github.com", "o", "r">>,
                       repository |-> repository, failing |-> failing]
  /\ response = None

TreeSpec == TreeInit /\ [][AnalyzeRepository]_vars

\* C25: no listing is requested for a directory nested more than 3 levels
\* below the root, no file of such a directory is in the file tree, no
\* listing is requested for a directory named with a leading dot or named
\* node_modules, and no file named with a leading dot is in the file tree
C25_TraversalBounded ==
  response # None =>
    /\ \A i \in 1..Len(response.listings) :
         LET path == response.listings[i]
         IN /\ Len(path) <= 3
            /\ path # <<>> =>
                 /\ ~startsWithDot(path[Len(path)])
                 /\ path[Len(path)] # "node_modules"
    /\ \A i \in 1..Len(response.fileTree) :
         LET path == response.fileTree[i]
         IN /\ Len(path) - 1 <= 3
            /\ ~startsWithDot(path[Len(path)])

\* ------------------------------------------------ the project archetype
ContextTableNames == TableNames \cup {"User", "Order"}

ContextMaps ==
  [tables : SeqsUpTo([name : ContextTableNames,
                      fields : {<<"id", "plan_id">>, <<"id", "name", "email">>}],
                     MaxTables)]

ContextInit ==
  /\ SessionInit
  /\ request \in [procedure : {"inferProjectContext"}, semanticMap : ContextMaps]
  /\ response = None

InferProjectContext ==
  /\ response = None
  /\ response' = inferProjectContext(request.semanticMap)
  /\ UNCHANGED <<state, sock, inbox, joinedAt, emitted, calls, wf, starts,
                 architect, request>>

ContextSpec == ContextInit /\ [][InferProjectContext]_vars

\* the archetypes in the order of their tests
Priority == <<"saas", "ecommerce", "dashboard", "social">>

\* the map holds an indicator of the archetype
Indicates(archetype, semanticMap) ==
  LET names == tableNamesLower(semanticMap)
      fields == { toLowerCase(f) : f \in allFields(semanticMap) }
  IN CASE archetype = "saas" ->
            \/ \E t \in names :
                 test({"subscription", "billing", "plan", "organization", "team", "tenant"}, t)
            \/ \E f \in fields : test({"stripe", "plan_id", "subscription"}, f)
       [] archetype = "ecommerce" ->
            \E t \in names : test({"product", "order", "cart", "payment", "inventory"}, t)
       [] archetype = "dashboard" ->
            \E t \in names : test({"metric", "analytics", "report", "log", "event"}, t)
       [] archetype = "social" ->
            \E t \in names : test({"post", "comment", "follow", "like", "friend", "message"}, t)

\* C26: the archetype is the first of saas, ecommerce, dashboard, social
\* that has an indicator in the map, and general when none has; the auth
\* feature is present exactly when the archetype is general and a user,
\* account or session table exists; tables User and Order give ecommerce
C26_FirstMatchWins ==
  response # None =>
    LET semanticMap == request.semanticMap
        present == { i \in 1..Len(Priority) : Indicates(Priority[i], semanticMap) }
        userTable == \E t \in tableNamesLower(semanticMap) :
                       test({"user", "account", "session"}, t)
    IN /\ present = {} => response.type = "general"
       /\ present # {} =>
            \E i \in present : /\ \A j \in present : i <= j
                               /\ response.type = Priority[i]
       /\ "auth" \in response.features <=> (response.type = "general" /\ userTable)
       /\ (/\ Len(semanticMap.tables) = 2
           /\ semanticMap.tables[1].name = "User"
           /\ semanticMap.tables[2].name = "Order"
           /\ ~Indicates("saas", semanticMap)) => response.type = "ecommerce"

\* the tables User and Order have been classified
C26_Witness ==
  /\ response # None
  /\ Len(request.semanticMap.tables) = 2
  /\ request.semanticMap.tables[1].name = "User"
  /\ request.semanticMap.tables[2].name = "Order"
  /\ response.type = "ecommerce"

\* ------------------------------------------------- updates are not lost
C27_Step ==
  /\ (state # None /\ starts' = starts) => IsPrefix(state.logs, state'.logs)
  /\ \A run \in Runs :
       /\ (wf[run].pc = "analyze" /\ wf'[run].pc = "scout") =>
            state'.semanticMap = wf'[run].semanticMap
       /\ (wf[run].pc = "scout" /\ wf'[run].pc = "synthesize") =>
            /\ state'.visualResearch = wf'[run].visualResearch
            /\ state'.semanticMap = state.semanticMap
       /\ (wf[run].pc = "synthesize" /\ wf'[run].pc = "done") =>
            /\ state'.visualResearch = state.visualResearch
            /\ state'.semanticMap = state.semanticMap
       /\ (wf[run].pc \in {"scout", "synthesize"} /\ wf'[run].pc = "failed") =>
            /\ state'.visualResearch = state.visualResearch
            /\ state'.semanticMap = state.semanticMap

\* C27: in every step other than a start the session's logs grow by
\* appending (the old value is a prefix of the new one), and a run that has
\* stored its semantic map or its visual research leaves the stored value in
\* place in all its later log, phase and result updates
C27_UpdatesNeverLost == [][C27_Step]_vars

\* two runs have interleaved and the later one has stored both results and
\* gone on to complete
C27_Witness ==
  /\ starts = 2
  /\ wf[2].pc = "done"
  /\ wf[1].pc \in {"scout", "synthesize", "done", "failed"}
  /\ state.semanticMap # None
  /\ state.visualResearch # None
  /\ Len(state.logs) > 5

\* ------------------------------------------ a report only when complete
\* C28: whenever a report request is answered with a Report, the session of
\* that requestId is in phase complete and the Report is the one the session
\* stores
C28_ReportOnlyWhenComplete ==
  [][(/\ request' # None
      /\ request'.procedure = "report"
      /\ "id" \in DOMAIN response'
      /\ <<state, wf, architect>>' = <<state, wf, architect>>)
     => (/\ state' # None
         /\ state'.phase = "complete"
         /\ response' = state'.finalReport)]_vars

\* ------------------------------- recommendations name selected registries
\* C29: every recommendation scout returns names a registry of the selected
\* set; with caller targets that is a catalog entry matched by a target, and
\* when no entry matches there is no recommendation
C29_RegistriesFromSelection ==
  response # None =>
    /\ \A i \in 1..Len(response.componentRecommendations) :
         response.componentRecommendations[i].registry \in { r.name : r \in Selected }
    /\ Selected = {} => response.componentRecommendations = <<>>

\* ------------------------------------- a run over a failing content provider
OutageRepositories ==
  { FlatRepository(0, 0, FALSE), FlatRepository(1, 1, FALSE),
    FlatRepository(2, 2, TRUE), NestedRepository(1, 0, Extras) }

OutageRepoUrls ==
  { <<"https:", "", "github.com", "o", "r">>,
    <<"https:", "", "example.com", "o", "r">> }

\* a run is given by the repository, the paths the provider fails for (none,
\* or every path), the caller's input and what the completion service does
OutageInit ==
  /\ SessionInit
  /\ \E repository \in OutageRepositories :
       request \in [procedure : {"pipeline"},
                    repoUrl : OutageRepoUrls,
                    repository : {repository},
                    failing : {{}, PathsOf(repository)},
                    targetRegistries : PipelineTargets,
                    completion : PipelineCompletions]
  /\ response = None

OutageStart ==
  /\ starts = 0
  /\ start([repoUrl |-> request.repoUrl, targetRegistries |-> request.targetRegistries])
  /\ UNCHANGED service

\* analyze returns or throws, and runWorkflow goes on or catches
OutageAnalyzed ==
  \E run \in Runs :
    /\ wf[run].pc = "analyze"
    /\ LET result == RepoAnalyst_analyze(wf[run].payload.repoUrl,
                                         request.repository, request.failing)
       IN IF "throws" \in DOMAIN result
          THEN /\ Install(workflowCatch(Ctx, result.throws))
               /\ wf' = [wf EXCEPT ![run] = [@ EXCEPT !.pc = "failed",
                                                      !.error = result.throws]]
          ELSE /\ Install(workflowPhase2(Ctx, run, result.returns))
               /\ wf' = [wf EXCEPT ![run] = [@ EXCEPT !.pc = "scout",
                                                      !.semanticMap = result.returns]]
    /\ UNCHANGED <<sock, joinedAt, starts>>
    /\ UNCHANGED service

OutageNext ==
  \/ OutageStart
  \/ OutageAnalyzed
  \/ PipelineScouted
  \/ PipelineSynthesized

OutageSpec == OutageInit /\ [][OutageNext]_vars

\* the provider fails for every path and the repoUrl names a repository
TotalOutage ==
  /\ request.failing = PathsOf(request.repository)
  /\ "throws" \notin DOMAIN parseGitHubUrl(request.repoUrl)

\* C30: when every listing and read fails, analyze returns a map with no
\* tables and no apiRoutes, no stage fails and the session never shows
\* error, and the run that has gone through scout and synthesize leaves the
\* session complete with a report of that empty map
C30_OutageStillCompletes ==
  TotalOutage =>
    /\ wf[1].pc # "failed"
    /\ state # None => state.phase # "error"
    /\ wf[1].pc \in {"scout", "synthesize", "done"} =>
         /\ wf[1].semanticMap.tables = <<>>
         /\ "apiRoutes" \notin DOMAIN wf[1].semanticMap
    /\ wf[1].pc = "done" =>
         /\ state.phase = "complete"
         /\ state.finalReport # None
         /\ state.finalReport.semanticMap = [tables |-> <<>>]

\* a run over a repository with schema and route files, none of which could
\* be listed or read, is complete
C30_Witness ==
  /\ TotalOutage
  /\ DOMAIN request.repository.files # {}
  /\ wf[1].pc = "done"
  /\ state.phase = "complete"
  /\ state.finalReport # None

====
